---- MODULE Spec2Model ----
(***************************************************************************)
(* A model of the bun-ssr build and serving pipeline: the export           *)
(* deduplicator (fix-js-duplicate-exports), the compression pipeline       *)
(* (compressFilesInDir / compressWithWorker), the bundle orchestrator      *)
(* (ssrBundle), the dependency resolver (resolveJsDependencies), the       *)
(* static asset server (bunStatic), the manifest loader                    *)
(* (generateSsrBundleHandlers) with the handlers it returns, and           *)
(* tryCompress.                                                            *)
(*                                                                         *)
(* Source text is modelled as a sequence of one-character strings, and     *)
(* positions are 0-based as in the source, so that slicing, searching and  *)
(* the byte-range surgery of the code are computed, not assumed.           *)
(***************************************************************************)
EXTENDS Integers, Sequences, FiniteSets, TLC

VARIABLES
  files,       \* fixer: the text of each .js file of the directory
  fixPc,       \* fixer: "idle" between calls, "running" inside Promise.all
  fixDone,     \* fixer: the files whose fixDuplicateExportsInFile has settled
  fixResults,  \* fixer: the { wasFixed, error } result of each settled file
  fixRuns,     \* fixer: completed calls of fixDuplicateExportsInDirectory
  fixBefore,   \* fixer: the directory as it was when the current call began
  fixFailing   \* fixer: the files whose read, parse or write throws

fixVars == <<files, fixPc, fixDone, fixResults, fixRuns, fixBefore, fixFailing>>

VARIABLES
  cpuCores,    \* compression: os.cpus().length, the concurrency of pLimit
  cmpFiles,    \* compression: the entries readdirSync returned, in order
  cmpTask,     \* compression: each entry's limit(...) task
  cmpWorker,   \* compression: each entry's three compressWithWorker calls
  cmpResult    \* compression: the promise compressFilesInDir returned

cmpVars == <<cpuCores, cmpFiles, cmpTask, cmpWorker, cmpResult>>

VARIABLES
  stPc,        \* static server: "init" before bunStatic returns, then "serving"
  stDir,       \* static server: the byte size of each file under dir
  stOptions,   \* static server: routePath and the options of the call
  stRoutes,    \* static server: the routing table bunStatic returned
  stRequest,   \* static server: the last request served
  stResponse   \* static server: the response it got

stVars == <<stPc, stDir, stOptions, stRoutes, stRequest, stResponse>>

VARIABLES
  depRefs,       \* resolver: how each emitted file refers to each other file
  depFiles,      \* resolver: the text of each .js file of clientDistDir
  jsByPagePath,  \* resolver: the JS asset list of each page
  depCalls,      \* resolver: completed calls of resolveJsDependencies
  depBefore      \* resolver: jsByPagePath as the last call received it

depVars == <<depRefs, depFiles, jsByPagePath, depCalls, depBefore>>

VARIABLES
  bPc,         \* orchestrator: "idle", "running", "returned" or "threw"
  bRoutes,     \* orchestrator: routes.length of the current call
  bCompress,   \* orchestrator: the compress option of the current call
  bEnv,        \* orchestrator: what the bundler and the workers will do
  bStage,      \* orchestrator: the stage last started
  bActive,     \* orchestrator: that stage's promise is still pending
  bWork,       \* orchestrator: work items the pending stage has left
  bLog,        \* orchestrator: the begin/end/failed events of the call
  bRuns,       \* orchestrator: calls of ssrBundle made so far
  bReturn      \* orchestrator: what the current call returned, if it did

bndVars == <<bPc, bRoutes, bCompress, bEnv, bStage, bActive, bWork, bLog, bRuns, bReturn>>

VARIABLES
  wkPc,        \* worker call: "idle" between calls, "called" inside one
  wkPromise,   \* worker call: the promise compressWithWorker returned
  wkWorker,    \* worker call: "none", "running" or "terminated"
  wkTimer,     \* worker call: "none", "armed", "cleared" or "fired"
  wkEvents,    \* worker call: events of the worker not yet dispatched
  wkHistory,   \* worker call: the handlers that have run, in order
  wkCalls      \* worker call: calls of compressWithWorker made so far

wkVars == <<wkPc, wkPromise, wkWorker, wkTimer, wkEvents, wkHistory, wkCalls>>

VARIABLES
  ldPc,        \* loader: where generateSsrBundleHandlers is, or how it ended
  ldRoutes,    \* loader: the paths of the caller's routes
  ldFile,      \* loader: the manifest file under bundleDirPath, << >> if absent
  ldIndex,     \* loader: how many manifest routes have their handler
  ldHandlers,  \* loader: the keys of the handlers built so far
  ldReturned,  \* loader: the keys of routeHandlers returned, if it returned
  ldCalls      \* loader: calls made so far

ldVars == <<ldPc, ldRoutes, ldFile, ldIndex, ldHandlers, ldReturned, ldCalls>>

VARIABLES
  mfPc,        \* manifest: where ssrBundle is, or how it ended
  mfRoutes,    \* manifest: the routes ssrBundle was called with
  mfEnv,       \* manifest: what the sources are like, and the compress option
  mfOutputs,   \* manifest: result.outputs of Bun.build
  mfDir,       \* manifest: the files of clientDistDir with their text
  mfJs,        \* manifest: bundleOutputs.jsByPagePath
  mfCss,       \* manifest: bundleOutputs.cssByPagePath
  mfManifest,  \* manifest: the manifest file, << >> while there is none
  mfRuns       \* manifest: calls made so far

mfVars == <<mfPc, mfRoutes, mfEnv, mfOutputs, mfDir, mfJs, mfCss, mfManifest, mfRuns>>

VARIABLES
  tcPc,        \* tryCompress: "idle", "called" or "returned"
  tcRequest,   \* tryCompress: the request it was given
  tcResponse,  \* tryCompress: the response it was given
  tcResult,    \* tryCompress: the response it returned
  tcCalls      \* tryCompress: calls made so far

tcVars == <<tcPc, tcRequest, tcResponse, tcResult, tcCalls>>

VARIABLES
  hPc,         \* SSR handler: "idle", "rendering", "returned" or "rejected"
  hOptions,    \* SSR handler: IS_PRODUCTION and compressSsrResponse it closed over
  hRequest,    \* SSR handler: the request being served
  hRender,     \* SSR handler: how rendering and compression will go
  hResponse,   \* SSR handler: the response the handler resolved with
  hCalls       \* SSR handler: requests served so far

hVars == <<hPc, hOptions, hRequest, hRender, hResponse, hCalls>>

vars == <<fixVars, cmpVars, stVars, depVars, bndVars, wkVars, ldVars, mfVars, tcVars, hVars>>

\* what the actions of one component leave alone: the other components
notFixVars == <<cmpVars, stVars, depVars, bndVars, wkVars, ldVars, mfVars, tcVars, hVars>>

notCmpVars == <<fixVars, stVars, depVars, bndVars, wkVars, ldVars, mfVars, tcVars, hVars>>

notStVars == <<fixVars, cmpVars, depVars, bndVars, wkVars, ldVars, mfVars, tcVars, hVars>>

notDepVars == <<fixVars, cmpVars, stVars, bndVars, wkVars, ldVars, mfVars, tcVars, hVars>>

notBndVars == <<fixVars, cmpVars, stVars, depVars, wkVars, ldVars, mfVars, tcVars, hVars>>

notWkVars == <<fixVars, cmpVars, stVars, depVars, bndVars, ldVars, mfVars, tcVars, hVars>>

notLdVars == <<fixVars, cmpVars, stVars, depVars, bndVars, wkVars, mfVars, tcVars, hVars>>

notMfVars == <<fixVars, cmpVars, stVars, depVars, bndVars, wkVars, ldVars, tcVars, hVars>>

notTcVars == <<fixVars, cmpVars, stVars, depVars, bndVars, wkVars, ldVars, mfVars, hVars>>

notHVars == <<fixVars, cmpVars, stVars, depVars, bndVars, wkVars, ldVars, mfVars, tcVars>>

FixAtRest ==
  /\ files = << >> /\ fixPc = "off" /\ fixDone = {} /\ fixResults = << >>
  /\ fixRuns = 0 /\ fixBefore = << >> /\ fixFailing = {}

CmpAtRest ==
  /\ cpuCores = 0 /\ cmpFiles = << >> /\ cmpTask = << >> /\ cmpWorker = << >>
  /\ cmpResult = "off"

StAtRest ==
  /\ stPc = "off" /\ stDir = << >> /\ stOptions = << >> /\ stRoutes = << >>
  /\ stRequest = << >> /\ stResponse = << >>

DepAtRest ==
  /\ depRefs = << >> /\ depFiles = << >> /\ jsByPagePath = << >> /\ depCalls = 0
  /\ depBefore = << >>

BndAtRest ==
  /\ bPc = "off" /\ bRoutes = 0 /\ bCompress = FALSE /\ bEnv = << >>
  /\ bStage = "none" /\ bActive = FALSE /\ bWork = 0 /\ bLog = << >> /\ bRuns = 0
  /\ bReturn = "nothing"

WkAtRest ==
  /\ wkPc = "off" /\ wkPromise = << >> /\ wkWorker = "none" /\ wkTimer = "none"
  /\ wkEvents = << >> /\ wkHistory = << >> /\ wkCalls = 0

LdAtRest ==
  /\ ldPc = "off" /\ ldRoutes = << >> /\ ldFile = << >> /\ ldIndex = 0
  /\ ldHandlers = {} /\ ldReturned = {} /\ ldCalls = 0

MfAtRest ==
  /\ mfPc = "off" /\ mfRoutes = << >> /\ mfEnv = << >> /\ mfOutputs = << >>
  /\ mfDir = << >> /\ mfJs = << >> /\ mfCss = << >> /\ mfManifest = << >> /\ mfRuns = 0

TcAtRest ==
  /\ tcPc = "off" /\ tcRequest = << >> /\ tcResponse = << >> /\ tcResult = << >>
  /\ tcCalls = 0

HAtRest ==
  /\ hPc = "off" /\ hOptions = << >> /\ hRequest = << >> /\ hRender = << >>
  /\ hResponse = << >> /\ hCalls = 0

\* the request handlers (tryCompress and the SSR route handler) at rest
ServeAtRest == TcAtRest /\ HAtRest

(***************************************************************************)
(* Text helpers: JavaScript string operations on sequences of characters.  *)
(***************************************************************************)
Min(a, b) == IF a < b THEN a ELSE b

Max(a, b) == IF a > b THEN a ELSE b

\* code[i] with a 0-based index
At(code, i) == code[i + 1]

\* String.prototype.slice(a, b) for non-negative a, b: clamps to the length
Slice(code, a, b) ==
  LET bb == Min(b, Len(code))
  IN  IF a >= bb THEN << >> ELSE SubSeq(code, a + 1, bb)

\* String.prototype.slice(a)
SliceFrom(code, a) == Slice(code, a, Len(code))

\* /\s/.test(c)
IsWs(c) == c \in {" ", "\n", "\t", "\r"}

\* characters an identifier is made of
IsIdChar(c) ==
  c \notin {" ", "\n", "\t", "\r", "{", "}", ",", ";", "(", ")", "'", "\"", "/", ".", "-", "=", "*"}

\* String.prototype.indexOf(needle) from position `from`; -1 when absent
IndexOfFrom(hay, needle, from) ==
  LET last == Len(hay) - Len(needle)
      hits == {i \in from..last : Slice(hay, i, i + Len(needle)) = needle}
  IN  IF hits = {} THEN -1 ELSE CHOOSE i \in hits : \A j \in hits : i <= j

IndexOf(hay, needle) == IndexOfFrom(hay, needle, 0)

\* String.prototype.lastIndexOf(needle); -1 when absent
LastIndexOf(hay, needle) ==
  LET last == Len(hay) - Len(needle)
      hits == {i \in 0..last : Slice(hay, i, i + Len(needle)) = needle}
  IN  IF hits = {} THEN -1 ELSE CHOOSE i \in hits : \A j \in hits : i >= j

\* String.prototype.includes(needle)
Includes(hay, needle) ==
  \E i \in 0..(Len(hay) - Len(needle)) : \A k \in 1..Len(needle) : hay[i + k] = needle[k]

\* the first position >= i that holds no whitespace (or the length)
SkipWs(code, i) ==
  CHOOSE j \in i..Max(i, Len(code)) :
    /\ (j >= Len(code) \/ ~IsWs(At(code, j)))
    /\ \A k \in i..(j - 1) : IsWs(At(code, k))

\* the first position >= i that holds no identifier character (or the length)
IdEnd(code, i) ==
  CHOOSE j \in i..Max(i, Len(code)) :
    /\ (j >= Len(code) \/ ~IsIdChar(At(code, j)))
    /\ \A k \in i..(j - 1) : IsIdChar(At(code, k))

\* String.prototype.trim()
Trim(s) ==
  LET keep == {i \in 1..Len(s) : ~IsWs(s[i])}
  IN  IF keep = {} THEN << >>
      ELSE SubSeq(s, CHOOSE i \in keep : \A j \in keep : i <= j,
                     CHOOSE i \in keep : \A j \in keep : i >= j)

\* String.prototype.split(',')
RECURSIVE SplitComma(_)
SplitComma(s) ==
  LET c == IndexOf(s, <<",">>)
  IN  IF c = -1 THEN <<s>>
      ELSE <<Slice(s, 0, c)>> \o SplitComma(SliceFrom(s, c + 1))

\* Array.prototype.join(sep)
RECURSIVE Join(_, _)
Join(parts, sep) ==
  IF Len(parts) = 0 THEN << >>
  ELSE IF Len(parts) = 1 THEN parts[1]
  ELSE parts[1] \o sep \o Join(Tail(parts), sep)

\* Array.prototype.reverse()
Reverse(s) == [i \in 1..Len(s) |-> s[Len(s) + 1 - i]]

\* the elements of a sequence
Range(s) == {s[i] : i \in 1..Len(s)}

KwExport == <<"e", "x", "p", "o", "r", "t">>

KwAs == <<"a", "s">>

(***************************************************************************)
(* parse(originalCode) of es-module-lexer, for the named export lists      *)
(* `export { a, b as c }`: one entry per exported name, with n the         *)
(* exported name and s the 0-based position where that name starts.        *)
(***************************************************************************)
RECURSIVE ParseList(_, _, _)
ParseList(code, i, acc) ==
  LET j == SkipWs(code, i)
  IN  IF j >= Len(code) THEN [exports |-> acc, next |-> j]
      ELSE IF At(code, j) = "}" THEN [exports |-> acc, next |-> j + 1]
      ELSE
        LET k == IdEnd(code, j)
            m == SkipWs(code, k)
            isAs == /\ Slice(code, m, m + 2) = KwAs
                    /\ m + 2 < Len(code)
                    /\ IsWs(At(code, m + 2))
            p == SkipWs(code, m + 2)
            q == IdEnd(code, p)
            entry == IF isAs THEN [n |-> Slice(code, p, q), s |-> p]
                     ELSE [n |-> Slice(code, j, k), s |-> j]
            after == IF isAs THEN SkipWs(code, q) ELSE m
        IN  IF k = j \/ (isAs /\ q = p) THEN [exports |-> acc, next |-> j + 1]
            ELSE IF after >= Len(code) THEN [exports |-> Append(acc, entry), next |-> after]
            ELSE IF At(code, after) = "," THEN ParseList(code, after + 1, Append(acc, entry))
            ELSE [exports |-> Append(acc, entry), next |-> after + 1]

RECURSIVE ParseFrom(_, _, _)
ParseFrom(code, i, acc) ==
  IF i >= Len(code) THEN acc
  ELSE IF /\ Slice(code, i, i + 6) = KwExport
          /\ (i = 0 \/ ~IsIdChar(At(code, i - 1)))
          /\ (i + 6 >= Len(code) \/ ~IsIdChar(At(code, i + 6)))
       THEN LET j == SkipWs(code, i + 6)
            IN  IF j < Len(code) /\ At(code, j) = "{"
                THEN LET r == ParseList(code, j + 1, << >>)
                     IN  ParseFrom(code, r.next, acc \o r.exports)
                ELSE ParseFrom(code, i + 6, acc)
       ELSE ParseFrom(code, i + 1, acc)

parse(code) == ParseFrom(code, 0, << >>)

(***************************************************************************)
(* fixDuplicateExportsInFile: statement grouping.                          *)
(***************************************************************************)
\* the positions p < exportNameStart the backward search accepts: the keyword
\* 'export' at 0 or after whitespace, with a '{' between it and the name
ExportKeywordCandidates(code, exportNameStart) ==
  {p \in 0..(exportNameStart - 1) :
     /\ Slice(code, p, p + 6) = KwExport
     /\ (p = 0 \/ IsWs(At(code, p - 1)))
     /\ \E i \in (p + 6)..(exportNameStart - 1) : At(code, i) = "{"}

\* the search runs backwards and stops at the first accepted position
ExportKeywordPos(code, exportNameStart) ==
  LET cand == ExportKeywordCandidates(code, exportNameStart)
  IN  IF cand = {} THEN -1 ELSE CHOOSE p \in cand : \A r \in cand : p >= r

OpenBracePos(code, exportKeywordPos, exportNameStart) ==
  LET braces == {i \in (exportKeywordPos + 6)..(exportNameStart - 1) : At(code, i) = "{"}
  IN  CHOOSE i \in braces : \A j \in braces : i <= j

\* the forward scan for the '}' that brings the brace depth back to 0
RECURSIVE CloseBraceScan(_, _, _)
CloseBraceScan(code, i, braceDepth) ==
  IF i >= Len(code) THEN -1
  ELSE IF At(code, i) = "{" THEN CloseBraceScan(code, i + 1, braceDepth + 1)
  ELSE IF At(code, i) = "}"
       THEN IF braceDepth - 1 = 0 THEN i ELSE CloseBraceScan(code, i + 1, braceDepth - 1)
  ELSE CloseBraceScan(code, i + 1, braceDepth)

CloseBracePos(code, openBracePos) == CloseBraceScan(code, openBracePos, 0)

\* exportStatements.find(...) then push the name, or push a new statement
AddExport(code, exportStatements, exp) ==
  LET exportKeywordPos == ExportKeywordPos(code, exp.s)
      openBracePos == OpenBracePos(code, exportKeywordPos, exp.s)
      closeBracePos == CloseBracePos(code, openBracePos)
      statementEnd == closeBracePos + 1
      existing == {i \in 1..Len(exportStatements) :
                     /\ exportStatements[i].start = exportKeywordPos
                     /\ exportStatements[i].end = statementEnd}
      idx == CHOOSE i \in existing : \A j \in existing : i <= j
  IN  IF exp.n = << >> THEN exportStatements
      ELSE IF exportKeywordPos = -1 THEN exportStatements
      ELSE IF closeBracePos = -1 THEN exportStatements
      ELSE IF existing # {}
           THEN IF exp.n \in Range(exportStatements[idx].names) THEN exportStatements
                ELSE [exportStatements EXCEPT ![idx].names = Append(@, exp.n)]
      ELSE Append(exportStatements,
                  [start |-> exportKeywordPos, end |-> statementEnd, names |-> <<exp.n>>])

RECURSIVE CollectStatements(_, _, _)
CollectStatements(code, exports, acc) ==
  IF exports = << >> THEN acc
  ELSE CollectStatements(code, Tail(exports), AddExport(code, acc, Head(exports)))

\* exportStatements.sort((a, b) => a.start - b.start): a stable insertion
RECURSIVE SortByStart(_)
SortByStart(stmts) ==
  IF Len(stmts) <= 1 THEN stmts
  ELSE LET rest == SortByStart(SubSeq(stmts, 1, Len(stmts) - 1))
           x == stmts[Len(stmts)]
           before == SelectSeq(rest, LAMBDA y : y.start <= x.start)
           after == SelectSeq(rest, LAMBDA y : y.start > x.start)
       IN  before \o <<x>> \o after

ExportStatements(code) == SortByStart(CollectStatements(code, parse(code), << >>))

(***************************************************************************)
(* fixDuplicateExportsInFile: what to fix.                                 *)
(***************************************************************************)
\* the end of a whole-statement removal: trailing ';', blanks and one newline
RECURSIVE RemovalEnd(_, _)
RemovalEnd(code, removalEnd) ==
  IF removalEnd >= Len(code) THEN removalEnd
  ELSE LET char == At(code, removalEnd)
       IN  IF char = ";" THEN RemovalEnd(code, removalEnd + 1)
           ELSE IF char = "\n" THEN removalEnd + 1
           ELSE IF char = "\r"
                THEN IF removalEnd + 1 < Len(code) /\ At(code, removalEnd + 1) = "\n"
                     THEN removalEnd + 2 ELSE removalEnd + 1
           ELSE IF char = " " \/ char = "\t" THEN RemovalEnd(code, removalEnd + 1)
           ELSE removalEnd

\* a plausible slip: the names of a kept statement are never marked as seen
MarkSeenForgotten(seen, names) == seen

\* names.forEach((name) => seen.add(name))
MarkSeen(seen, names) == seen \cup Range(names)

\* the walk over the statements in source order with the set of names seen
RECURSIVE IdentifyFixes(_, _, _)
IdentifyFixes(code, stmts, acc) ==
  IF stmts = << >> THEN acc
  ELSE
    LET stmt == Head(stmts)
        duplicateNames == SelectSeq(stmt.names, LAMBDA name : name \in acc.seen)
        newNames == SelectSeq(stmt.names, LAMBDA name : name \notin acc.seen)
    IN  IF Len(duplicateNames) > 0
        THEN IF Len(newNames) = 0
             THEN IdentifyFixes(code, Tail(stmts),
                    [acc EXCEPT !.statementsToRemove =
                       Append(@, [start |-> stmt.start, end |-> RemovalEnd(code, stmt.end)])])
             ELSE IdentifyFixes(code, Tail(stmts),
                    [acc EXCEPT !.namesToRemoveFromStatements =
                                   Append(@, [stmt |-> stmt, names |-> Range(duplicateNames)]),
                                !.seen = MarkSeen(@, newNames)])
        ELSE IdentifyFixes(code, Tail(stmts), [acc EXCEPT !.seen = MarkSeen(@, stmt.names)])

Fixes(code) ==
  IdentifyFixes(code, ExportStatements(code),
                [seen |-> {}, statementsToRemove |-> << >>,
                 namesToRemoveFromStatements |-> << >>])

(***************************************************************************)
(* fixDuplicateExportsInFile: the edits and their application.             *)
(***************************************************************************)
\* the trimmed, non-empty comma-separated parts between the braces
StatementParts(code, stmt) ==
  LET stmtText == Slice(code, stmt.start, stmt.end)
      openBracePos == IndexOf(stmtText, <<"{">>)
      closeBracePos == LastIndexOf(stmtText, <<"}">>)
      content == Slice(code, stmt.start + openBracePos + 1, stmt.start + closeBracePos)
      segments == SplitComma(content)
      trimmed == [i \in 1..Len(segments) |-> Trim(segments[i])]
  IN  SelectSeq(trimmed, LAMBDA t : t # << >>)

\* the rewrite of one partially duplicated statement; << >> when none is made
PartialEdit(code, entry) ==
  LET parts == StatementParts(code, entry.stmt)
      namesToKeep == SelectSeq(parts, LAMBDA part : part \notin entry.names)
  IN  IF Len(namesToKeep) > 0
      THEN <<[start |-> entry.stmt.start, end |-> entry.stmt.end,
              replacement |-> <<"e", "x", "p", "o", "r", "t", " ", "{", " ">>
                              \o Join(namesToKeep, <<",", " ">>) \o <<" ", "}">>]>>
      ELSE << >>

RECURSIVE PartialEdits(_, _)
PartialEdits(code, entries) ==
  IF entries = << >> THEN << >>
  ELSE PartialEdit(code, Head(entries)) \o PartialEdits(code, Tail(entries))

\* result.slice(0, edit.start) + edit.replacement + result.slice(edit.end), in turn
RECURSIVE ApplyEdits(_, _)
ApplyEdits(result, edits) ==
  IF edits = << >> THEN result
  ELSE LET edit == Head(edits)
       IN  ApplyEdits(Slice(result, 0, edit.start) \o edit.replacement
                        \o SliceFrom(result, edit.end),
                      Tail(edits))

\* result.slice(0, start) + result.slice(end), in turn
RECURSIVE ApplyRemovals(_, _)
ApplyRemovals(result, removals) ==
  IF removals = << >> THEN result
  ELSE LET r == Head(removals)
       IN  ApplyRemovals(Slice(result, 0, r.start) \o SliceFrom(result, r.end), Tail(removals))

\* the order in which the two categories of edit are applied to the text
ApplyFixes(originalCode, edits, statementsToRemove) ==
  ApplyRemovals(ApplyEdits(originalCode, Reverse(edits)), Reverse(statementsToRemove))

\* the early return: nothing to remove and nothing to rewrite
NothingToFix(fixes) ==
  Len(fixes.statementsToRemove) = 0 /\ Len(fixes.namesToRemoveFromStatements) = 0

\* the whole function: the text written back (or left) and the value returned
fixDuplicateExportsInFile(originalCode) ==
  LET fixes == Fixes(originalCode)
      edits == PartialEdits(originalCode, fixes.namesToRemoveFromStatements)
  IN  IF NothingToFix(fixes)
      THEN [text |-> originalCode, wasFixed |-> FALSE]
      ELSE [text |-> ApplyFixes(originalCode, edits, fixes.statementsToRemove),
            wasFixed |-> TRUE]

(***************************************************************************)
(* fixDuplicateExportsInDirectory: the texts the checked directories hold. *)
(***************************************************************************)
\* the largest number of statements of the first file of a directory
MaxStmts == 3

\* how many calls of fixDuplicateExportsInDirectory a behaviour makes
MaxFixRuns == 2

StmtExportF == <<"e","x","p","o","r","t"," ","{"," ","f"," ","}",";","\n">>

StmtExportFG ==
  <<"e","x","p","o","r","t"," ","{"," ","f",","," ","g"," ","}",";","\n">>

StmtExportAliasFG ==
  <<"e","x","p","o","r","t"," ","{"," ","x"," ","a","s"," ","f",","," ","g"," ","}",";","\n">>

StmtExportCompactGFH ==
  <<"e","x","p","o","r","t"," ","{","g",",","f",",","h","}",";","\n">>

StmtOther == <<"z",";","\n">>

StmtForms == {StmtExportF, StmtExportFG, StmtExportAliasFG, StmtExportCompactGFH, StmtOther}

RECURSIVE Concat(_)
Concat(seqs) == IF seqs = << >> THEN << >> ELSE Head(seqs) \o Concat(Tail(seqs))

\* every text of at most n statements
Texts(n) == UNION {{Concat(ss) : ss \in [1..k -> StmtForms]} : k \in 0..n}

\* the texts of the second file of a directory
OtherTexts == {StmtExportF, StmtOther, StmtExportF \o StmtExportF}

\* the directories: one or two .js files
Directories ==
  {<<t>> : t \in Texts(MaxStmts)} \cup {<<t, u>> : t \in Texts(MaxStmts), u \in OtherTexts}

JsFiles == DOMAIN files

(***************************************************************************)
(* fixDuplicateExportsInDirectory: Promise.all over the files; each file   *)
(* is read, fixed and written back by its own fixDuplicateExportsInFile.   *)
(***************************************************************************)
FixInit ==
  /\ CmpAtRest /\ StAtRest /\ DepAtRest /\ BndAtRest /\ WkAtRest /\ LdAtRest /\ MfAtRest
  /\ ServeAtRest
  /\ files \in Directories
  /\ fixPc = "idle"
  /\ fixDone = {}
  /\ fixResults = << >>
  /\ fixRuns = 0
  /\ fixBefore = << >>
  /\ fixFailing = {}

\* the call: getAllJsFiles, then one fixDuplicateExportsInFile per file
FixStart ==
  /\ fixPc = "idle"
  /\ fixRuns < MaxFixRuns
  /\ fixPc' = "running"
  /\ fixDone' = {}
  /\ fixResults' = [f \in JsFiles |-> [wasFixed |-> FALSE, error |-> FALSE]]
  /\ fixBefore' = files
  /\ UNCHANGED <<files, fixRuns, fixFailing>>
  /\ UNCHANGED notFixVars

\* a plausible slip: no try/catch around the file, its rejection reaches
\* Promise.all
Uncaught(threw, wasFixed) == [wasFixed |-> wasFixed, error |-> FALSE, rejected |-> threw]

\* try { return { filePath, wasFixed, error: null } }
\* catch (error) { return { filePath, wasFixed: false, error } }
TryCatch(threw, wasFixed) ==
  IF threw THEN [wasFixed |-> FALSE, error |-> TRUE, rejected |-> FALSE]
  ELSE [wasFixed |-> wasFixed, error |-> FALSE, rejected |-> FALSE]

\* one file's fixDuplicateExportsInFile: read, fix, write back, return; a
\* file that throws is left as it was
FixFile(f) ==
  /\ fixPc = "running"
  /\ f \in JsFiles \ fixDone
  /\ LET r == fixDuplicateExportsInFile(files[f])
         settled == TryCatch(f \in fixFailing, r.wasFixed)
     IN  /\ files' = IF f \in fixFailing THEN files ELSE [files EXCEPT ![f] = r.text]
         /\ fixResults' = [fixResults EXCEPT
                            ![f] = [wasFixed |-> settled.wasFixed, error |-> settled.error]]
         /\ fixPc' = IF settled.rejected THEN "threw" ELSE fixPc
  /\ fixDone' = fixDone \cup {f}
  /\ UNCHANGED <<fixRuns, fixBefore, fixFailing>>
  /\ UNCHANGED notFixVars

\* Promise.all has settled: the results are reported and the call returns
FixReport ==
  /\ fixPc = "running"
  /\ fixDone = JsFiles
  /\ fixPc' = "idle"
  /\ fixRuns' = fixRuns + 1
  /\ UNCHANGED <<files, fixDone, fixResults, fixBefore, fixFailing>>
  /\ UNCHANGED notFixVars

FixNext == FixStart \/ (\E f \in JsFiles : FixFile(f)) \/ FixReport

SpecFix == FixInit /\ [][FixNext]_vars

\* the directories of the runs in which files may throw
FailingDirectories ==
  {<<t>> : t \in OtherTexts}
  \cup {<<t, u>> : t \in OtherTexts \cup {StmtExportFG \o StmtExportCompactGFH},
                   u \in OtherTexts}

\* the same directory function, where reading, parsing or writing some of
\* the files throws
FixFailingInit ==
  /\ CmpAtRest /\ StAtRest /\ DepAtRest /\ BndAtRest /\ WkAtRest /\ LdAtRest /\ MfAtRest
  /\ ServeAtRest
  /\ files \in FailingDirectories
  /\ fixPc = "idle"
  /\ fixDone = {}
  /\ fixResults = << >>
  /\ fixRuns = 0
  /\ fixBefore = << >>
  /\ fixFailing \in SUBSET (DOMAIN files)

SpecFixFailing == FixFailingInit /\ [][FixNext]_vars


(***************************************************************************)
(* Claims about the export fixer.                                          *)
(***************************************************************************)
\* the statement `export { f }` without what follows it
ExportFStatement == <<"e","x","p","o","r","t"," ","{"," ","f"," ","}">>

\* how many times a text contains `export { f }`
CountExportF(text) ==
  Cardinality({i \in 0..Len(text) :
                 Slice(text, i, i + Len(ExportFStatement)) = ExportFStatement})

\* a text made only of `export { f };` statements and other code
OnlyExportF(text) ==
  \E k \in 0..(MaxStmts + 1) : \E ss \in [1..k -> {StmtExportF, StmtOther}] : text = Concat(ss)

FixReturned == fixPc = "idle" /\ fixRuns >= 1

C10_SecondRunIsNoOp ==
  (fixPc = "idle" /\ fixRuns = 2)
  => /\ files = fixBefore
     /\ \A f \in JsFiles : ~fixResults[f].wasFixed

\* the names a text exports, in source order
ExportedNames(text) == [i \in 1..Len(parse(text)) |-> parse(text)[i].n]

\* a sequence without the later repetitions of its elements
RECURSIVE DistinctInOrder(_)
DistinctInOrder(names) ==
  IF names = << >> THEN << >>
  ELSE LET front == DistinctInOrder(SubSeq(names, 1, Len(names) - 1))
           last == names[Len(names)]
       IN  IF last \in Range(front) THEN front ELSE Append(front, last)

\* a text with a statement that mixes new and already exported names, and
\* no statement made of already exported names only
OnlyMixedDuplicates(text) ==
  /\ Len(Fixes(text).namesToRemoveFromStatements) > 0
  /\ Len(Fixes(text).statementsToRemove) = 0

\* C11 as stated: a statement that mixes names already exported with new
\* names is rewritten to export exactly its new names in their original
\* order, so a file whose only duplicates are in such statements exports,
\* after the call, each of its names once, in the order of first export.
C11_MixedStatementKeepsNewNames ==
  FixReturned =>
    \A f \in JsFiles :
      OnlyMixedDuplicates(fixBefore[f])
      => ExportedNames(files[f]) = DistinctInOrder(ExportedNames(fixBefore[f]))

\* the original text with every range the fixer decided on replaced at its
\* original position: the rewritten form for a partially duplicated
\* statement, nothing for a fully duplicated one
RangesReplaced(text) ==
  LET fixes == Fixes(text)
      rewrites == PartialEdits(text, fixes.namesToRemoveFromStatements)
      removals == [i \in 1..Len(fixes.statementsToRemove) |->
                     [start |-> fixes.statementsToRemove[i].start,
                      end |-> fixes.statementsToRemove[i].end,
                      replacement |-> << >>]]
  IN  ApplyEdits(text, Reverse(SortByStart(rewrites \o removals)))

\* C24 as stated: the text the fixer writes is the original with each fully
\* duplicated statement's range removed and each partially duplicated
\* statement's range replaced by its rewritten form, every other character
\* unchanged, whatever the mix of the two kinds of statement.
C24_EditsAtOriginalRanges ==
  FixReturned => \A f \in JsFiles : files[f] = RangesReplaced(fixBefore[f])

\* C25 as stated: a file is written back and reported as fixed only if an
\* edit changed its text; a file whose text comes out equal to the original
\* is reported as not fixed.
C25_FixedOnlyIfTextChanged ==
  FixReturned => \A f \in JsFiles : fixResults[f].wasFixed => files[f] # fixBefore[f]

\* C27 as stated: after the fixer has processed a file, no name is exported
\* twice by the named export lists of the file, aliased entries included.
C27_NoNameExportedTwice ==
  FixReturned =>
    \A f \in JsFiles :
      \A i, j \in 1..Len(ExportedNames(files[f])) :
        ExportedNames(files[f])[i] = ExportedNames(files[f])[j] => i = j

\* C22: a file whose fixing throws never aborts
\* fixDuplicateExportsInDirectory: the call does not throw, and when it has
\* returned every other file has been fixed as if alone, while the failing
\* file is reported with an error and wasFixed false, its text untouched.
C22_FileErrorIsIsolated ==
  /\ fixPc # "threw"
  /\ FixReturned =>
       \A f \in JsFiles :
         IF f \in fixFailing
         THEN /\ fixResults[f] = [wasFixed |-> FALSE, error |-> TRUE]
              /\ files[f] = fixBefore[f]
         ELSE /\ fixResults[f] =
                   [wasFixed |-> fixDuplicateExportsInFile(fixBefore[f]).wasFixed,
                    error |-> FALSE]
              /\ files[f] = fixDuplicateExportsInFile(fixBefore[f]).text

\* C22 witness: a call has returned in which the first file threw and the
\* second, which held a duplicate, was fixed.
C22_Witness ==
  /\ FixReturned /\ fixRuns = 1 /\ Len(files) = 2 /\ fixFailing = {1}
  /\ fixResults[1].error /\ fixResults[2].wasFixed
  /\ files[2] # fixBefore[2]

(***************************************************************************)
(* compressFilesInDir: pLimit(cpuCores) over the directory entries; the    *)
(* task of a matching entry starts three compressWithWorker calls at once  *)
(* and awaits them with Promise.all.                                       *)
(***************************************************************************)
\* the largest number of directory entries
MaxCmpFiles == 2

\* the largest number of processing units
MaxCores == 2

Algorithms == {"gz", "zst", "br"}

\* the byte size of entry f: entries differ in size
OriginalSize(f) == f

\* the extensions of /\.(js|css|html|json|svg|ico)$/
AllowedExtensions ==
  {<<"j", "s">>, <<"c", "s", "s">>, <<"h", "t", "m", "l">>, <<"j", "s", "o", "n">>,
   <<"s", "v", "g">>, <<"i", "c", "o">>}

\* a plausible slip: the extension test is left out
MatchesAnyFile(file) == TRUE

\* /\.(js|css|html|json|svg|ico)$/.test(file)
MatchesAllowList(file) ==
  \E ext \in AllowedExtensions :
    /\ Len(file) >= Len(ext) + 1
    /\ SliceFrom(file, Len(file) - Len(ext) - 1) = <<".">> \o ext

\* the entries a checked directory may hold: a script, its gzip sibling
\* from an earlier run, a JSON file, and a file named without a dot
CmpNames ==
  {<<"a", ".", "j", "s">>, <<"a", ".", "j", "s", ".", "g", "z">>,
   <<"a", ".", "j", "s", "o", "n">>, <<"j", "s">>}

CmpEntries == DOMAIN cmpFiles

\* how a routine's output compares with the original: the script shrinks
\* under gzip, keeps its length under zstd and grows under brotli; the JSON
\* file keeps its length under gzip, grows under zstd, shrinks under brotli
LengthDelta(file, a) ==
  IF file = <<"a", ".", "j", "s">>
  THEN CASE a = "gz" -> -1 [] a = "zst" -> 0 [] OTHER -> 1
  ELSE CASE a = "gz" -> 0 [] a = "zst" -> 1 [] OTHER -> -1

\* the length the compression routine returns for entry f
CompressedLengths(f, a) == {OriginalSize(f) + LengthDelta(cmpFiles[f].name, a)}

\* workers created and not yet terminated
InFlight == {<<f, a>> \in CmpEntries \X Algorithms : cmpWorker[f][a].state = "running"}

\* pLimit: the tasks that hold one of its slots
ActiveCount(task) == Cardinality({f \in DOMAIN task : task[f] = "running"})

\* pLimit starts a queued task only while fewer than `concurrency` are active
SlotFree(task, concurrency) == ActiveCount(task) < concurrency

\* Promise.all over the tasks: rejected by the first rejection, resolved
\* once every task has resolved
OuterPromise(result, task) ==
  IF result # "pending" THEN result
  ELSE IF \E f \in DOMAIN task : task[f] = "rejected" THEN "rejected"
  ELSE IF \A f \in DOMAIN task : task[f] = "resolved" THEN "resolved"
  ELSE "pending"

\* Promise.all over the three branches of one task
InnerPromise(current, workers) ==
  IF current # "running" THEN current
  ELSE IF \E a \in Algorithms : workers[a].state = "failed" THEN "rejected"
  ELSE IF \A a \in Algorithms : workers[a].state \in {"wrote", "skipped"} THEN "resolved"
  ELSE "running"

\* the state just after compressFilesInDir has queued every entry
CmpInit ==
  /\ FixAtRest /\ StAtRest /\ DepAtRest /\ BndAtRest /\ WkAtRest /\ LdAtRest /\ MfAtRest
  /\ ServeAtRest
  /\ cpuCores \in 1..MaxCores
  /\ \E n \in 1..MaxCmpFiles :
       cmpFiles \in [1..n -> {[name |-> file, compressible |-> MatchesAllowList(file)] :
                                file \in CmpNames}]
  /\ cmpTask = [f \in DOMAIN cmpFiles |-> "queued"]
  /\ cmpWorker = [f \in DOMAIN cmpFiles |-> [a \in Algorithms |-> [state |-> "none", len |-> 0]]]
  /\ cmpResult = "pending"

\* pLimit runs the oldest queued task; a matching entry starts its three
\* workers, any other entry returns at once
TaskStart(f) ==
  /\ cmpTask[f] = "queued"
  /\ \A g \in CmpEntries : g < f => cmpTask[g] # "queued"
  /\ SlotFree(cmpTask, cpuCores)
  /\ IF cmpFiles[f].compressible
     THEN /\ cmpTask' = [cmpTask EXCEPT ![f] = "running"]
          /\ cmpWorker' = [cmpWorker EXCEPT ![f] =
                             [a \in Algorithms |-> [state |-> "running", len |-> 0]]]
     ELSE /\ cmpTask' = [cmpTask EXCEPT ![f] = "resolved"]
          /\ UNCHANGED cmpWorker
  /\ cmpResult' = OuterPromise(cmpResult, cmpTask')
  /\ UNCHANGED <<cpuCores, cmpFiles>>
  /\ UNCHANGED notCmpVars

\* what a settled worker does to its task and to the outer promise
WorkerSettles(f, a, outcome) ==
  /\ cmpWorker[f][a].state = "running"
  /\ cmpWorker' = [cmpWorker EXCEPT ![f][a] = outcome]
  /\ cmpTask' = [cmpTask EXCEPT ![f] = InnerPromise(@, cmpWorker'[f])]
  /\ cmpResult' = OuterPromise(cmpResult, cmpTask')
  /\ UNCHANGED <<cpuCores, cmpFiles>>
  /\ UNCHANGED notCmpVars

\* worker.onmessage: the timer is cleared, the worker terminated, and the
\* branch writes the sibling only if it is smaller than the original
WorkerMessage(f, a, len) ==
  WorkerSettles(f, a, IF len < OriginalSize(f)
                      THEN [state |-> "wrote", len |-> len]
                      ELSE [state |-> "skipped", len |-> len])

\* worker.onerror: the timer is cleared, the worker terminated, the call rejects
WorkerError(f, a) == WorkerSettles(f, a, [state |-> "failed", len |-> 0])

\* the 30 second timer fires first: the worker is terminated, the call rejects
WorkerTimeout(f, a) == WorkerSettles(f, a, [state |-> "failed", len |-> 0])

CmpNext ==
  \/ \E f \in CmpEntries : TaskStart(f)
  \/ \E f \in CmpEntries, a \in Algorithms : \E len \in CompressedLengths(f, a) : WorkerMessage(f, a, len)
  \/ \E f \in CmpEntries, a \in Algorithms : WorkerError(f, a)
  \/ \E f \in CmpEntries, a \in Algorithms : WorkerTimeout(f, a)

SpecCompress == CmpInit /\ [][CmpNext]_vars

\* C2 as stated: never more compression workers in flight than processing units.
C2_WorkersWithinCores == Cardinality(InFlight) <= cpuCores

\* the extension of a name: what follows its last dot, << >> without a dot
ExtensionOf(file) ==
  IF LastIndexOf(file, <<".">>) < 0 THEN << >>
  ELSE SliceFrom(file, LastIndexOf(file, <<".">>) + 1)

\* C14: a sibling is written for an entry and an algorithm exactly when the
\* entry's extension is allow-listed and the routine returned fewer bytes
\* than the original has; a result of equal or larger length writes none,
\* and no worker is ever started for an entry of another extension.
C14_SiblingIffSmaller ==
  \A f \in CmpEntries : \A a \in Algorithms :
    LET w == cmpWorker[f][a]
        listed == ExtensionOf(cmpFiles[f].name) \in AllowedExtensions
    IN  /\ w.state = "wrote" => listed /\ w.len < OriginalSize(f)
        /\ w.state = "skipped" => listed /\ w.len >= OriginalSize(f)
        /\ ~listed => w.state = "none"
        /\ (listed /\ cmpTask[f] # "queued") => w.state # "none"

\* C14 witness: for one script the gzip result was smaller and was written,
\* the zstd result had the original's length and the brotli result was
\* larger, and neither was written.
C14_Witness ==
  \E f \in CmpEntries :
    /\ cmpFiles[f].name = <<"a", ".", "j", "s">>
    /\ cmpWorker[f]["gz"].state = "wrote"
    /\ cmpWorker[f]["zst"] = [state |-> "skipped", len |-> OriginalSize(f)]
    /\ cmpWorker[f]["br"] = [state |-> "skipped", len |-> OriginalSize(f) + 1]

\* C15 as stated: a worker error or timeout only skips its variant, and
\* compressFilesInDir completes without failing.
C15_WorkerFailureIsContained ==
  (\E f \in CmpEntries, a \in Algorithms : cmpWorker[f][a].state = "failed")
  => cmpResult # "rejected"

\* C29 as stated: once compressFilesInDir has settled, resolved or
\* rejected, none of the workers it started is still running (so none can
\* write a sibling afterwards).
C29_NoWorkerOutlivesCall == cmpResult # "pending" => InFlight = {}

(***************************************************************************)
(* bunStatic: grouping of the files, the route of each group and the       *)
(* handler built for it.                                                   *)
(***************************************************************************)
\* String.prototype.endsWith(suffix)
EndsWith(name, suffix) ==
  Len(name) >= Len(suffix) /\ SubSeq(name, Len(name) - Len(suffix) + 1, Len(name)) = suffix

\* Number.prototype.toString() for a non-negative integer
Digit(d) == <<"0", "1", "2", "3", "4", "5", "6", "7", "8", "9">>[d + 1]

RECURSIVE NumToString(_)
NumToString(n) == IF n < 10 THEN <<Digit(n)>> ELSE Append(NumToString(n \div 10), Digit(n % 10))

compressionExtensions == <<<<"g", "z">>, <<"b", "r">>, <<"z", "s", "t">>>>

\* compressionExtensions.find((ext) => file.name.endsWith(`.${ext}`)); << >> when none
CompressionExtension(name) ==
  LET hits == {i \in 1..Len(compressionExtensions) :
                 EndsWith(name, <<".">> \o compressionExtensions[i])}
  IN  IF hits = {} THEN << >>
      ELSE compressionExtensions[CHOOSE i \in hits : \A j \in hits : i <= j]

\* file.name.slice(0, -(compressionExtension.length + 1)), or the name itself
NameWithoutCompression(name) ==
  LET ext == CompressionExtension(name)
  IN  IF ext = << >> THEN name ELSE SubSeq(name, 1, Len(name) - (Len(ext) + 1))

\* the keys of filesGroupedByNameWithoutCompressionExtension
GroupNames(dir) == {NameWithoutCompression(name) : name \in DOMAIN dir}

\* the files of one group
GroupFiles(dir, group) == {name \in DOMAIN dir : NameWithoutCompression(name) = group}

\* file.files.find((file) => file.compression === ext); << >> when none
VariantFile(dir, group, ext) ==
  LET hits == {name \in GroupFiles(dir, group) : CompressionExtension(name) = ext}
  IN  IF hits = {} THEN << >> ELSE CHOOSE name \in hits : TRUE

\* String.prototype.replace(/\/\//g, '/')
RECURSIVE CollapseSlashes(_)
CollapseSlashes(t) ==
  IF Len(t) < 2 THEN t
  ELSE IF t[1] = "/" /\ t[2] = "/" THEN <<"/">> \o CollapseSlashes(SubSeq(t, 3, Len(t)))
  ELSE <<t[1]>> \o CollapseSlashes(Tail(t))

\* a plausible slip: the special case is made on the group's name
RouteOfByName(routePath, spaMode, group) ==
  IF group = <<"i", "n", "d", "e", "x", ".", "h", "t", "m", "l">>
  THEN IF spaMode THEN <<"/", "*">> ELSE <<"/">>
  ELSE CollapseSlashes(routePath \o <<"/">> \o group)

\* the route of a group
RouteOf(routePath, spaMode, group) ==
  LET route == CollapseSlashes(routePath \o <<"/">> \o group)
  IN  IF route = <<"/", "i", "n", "d", "e", "x", ".", "h", "t", "m", "l">>
      THEN IF spaMode THEN <<"/", "*">> ELSE <<"/">>
      ELSE route

\* Bun.file(path).type: the MIME type of the file's extension
ContentTypeOf(name) ==
  IF EndsWith(name, <<".", "j", "s">>) THEN "text/javascript;charset=utf-8"
  ELSE IF EndsWith(name, <<".", "h", "t", "m", "l">>) THEN "text/html;charset=utf-8"
  ELSE "application/octet-stream"

\* Bun.file(path).size
SizeOf(dir, name) == IF name \in DOMAIN dir THEN dir[name] ELSE 0

\* header names are case-insensitive: Headers keeps them in lower case
LowerName(n) ==
  CASE n = "Content-Type" -> "content-type"
    [] n = "Content-Length" -> "content-length"
    [] n = "Content-Encoding" -> "content-encoding"
    [] n = "Cache-Control" -> "cache-control"
    [] OTHER -> n

\* new Headers(init); init undefined gives no headers
NewHeaders(init) ==
  [n \in {LowerName(k) : k \in DOMAIN init} |->
     init[CHOOSE k \in DOMAIN init : LowerName(k) = n]]

\* headers.set(name, value)
SetHeader(headers, name, value) ==
  [n \in DOMAIN headers \cup {LowerName(name)} |->
     IF n = LowerName(name) THEN value ELSE headers[n]]

\* what the handler of one group closes over
BuildHandler(dir, options, group) ==
  LET brotliFile == VariantFile(dir, group, <<"b", "r">>)
      gzipFile == VariantFile(dir, group, <<"g", "z">>)
      zstdFile == VariantFile(dir, group, <<"z", "s", "t">>)
  IN  [name |-> group,
       strategy |-> options.strategy,
       hasBrotli |-> brotliFile # << >>,
       hasGzip |-> gzipFile # << >>,
       hasZstd |-> zstdFile # << >>,
       hasCompressedVariants |-> \E name \in GroupFiles(dir, group) : CompressionExtension(name) # << >>,
       brotliFile |-> brotliFile,
       gzipFile |-> gzipFile,
       zstdFile |-> zstdFile,
       bunFileContentLength |-> NumToString(SizeOf(dir, group)),
       brotliFileContentLength |-> NumToString(SizeOf(dir, brotliFile)),
       zstdFileContentLength |-> NumToString(SizeOf(dir, zstdFile)),
       gzipFileContentLength |-> NumToString(SizeOf(dir, gzipFile)),
       \* the bytes the ram strategy pre-loads
       bunFileBytes |-> SizeOf(dir, group),
       brotliFileBytes |-> SizeOf(dir, brotliFile),
       zstdFileBytes |-> SizeOf(dir, zstdFile),
       gzipFileBytes |-> SizeOf(dir, gzipFile),
       userHeaders |-> options.headers,
       contentType |-> ContentTypeOf(group)]

\* acceptEncoding?.includes(token): false when the header is absent
AcceptIncludes(req, token) == req.hasAcceptEncoding /\ Includes(req.acceptEncoding, token)

TokenBr == <<"b", "r">>

TokenZstd == <<"z", "s", "t", "d">>

TokenGzip == <<"g", "z", "i", "p">>

\* the response of a compressed variant: its three content headers are set
\* over the caller's headers
VariantResponse(h, encoding, contentLength, file, bytes) ==
  [headers |-> SetHeader(SetHeader(SetHeader(NewHeaders(h.userHeaders),
                 "Content-Encoding", encoding), "Content-Type", h.contentType),
                 "Content-Length", contentLength),
   body |-> [file |-> file, len |-> bytes]]

\* the ram strategy's fallback: new Response(bunFileBytes, { headers: userHeaders })
RamFallback(h) ==
  [headers |-> NewHeaders(h.userHeaders),
   body |-> [file |-> h.name, len |-> h.bunFileBytes]]

\* the disk strategy's fallback and the response of a group without variants
PlainResponse(h, bytes) ==
  [headers |-> SetHeader(SetHeader(NewHeaders(h.userHeaders),
                 "Content-Type", h.contentType), "Content-Length", h.bunFileContentLength),
   body |-> [file |-> h.name, len |-> bytes]]

\* the handler of a group with compressed variants, ram strategy
RamHandler(h, req) ==
  IF h.hasBrotli /\ AcceptIncludes(req, TokenBr)
  THEN VariantResponse(h, "br", h.brotliFileContentLength, h.brotliFile, h.brotliFileBytes)
  ELSE IF h.hasZstd /\ AcceptIncludes(req, TokenZstd)
  THEN VariantResponse(h, "zstd", h.zstdFileContentLength, h.zstdFile, h.zstdFileBytes)
  ELSE IF h.hasGzip /\ AcceptIncludes(req, TokenGzip)
  THEN VariantResponse(h, "gzip", h.gzipFileContentLength, h.gzipFile, h.gzipFileBytes)
  ELSE RamFallback(h)

\* the handler of a group with compressed variants, disk strategy: the
\* bodies are file handles, read when the response is sent
DiskHandler(h, req, dir) ==
  IF h.hasBrotli /\ AcceptIncludes(req, TokenBr)
  THEN VariantResponse(h, "br", h.brotliFileContentLength, h.brotliFile, SizeOf(dir, h.brotliFile))
  ELSE IF h.hasZstd /\ AcceptIncludes(req, TokenZstd)
  THEN VariantResponse(h, "zstd", h.zstdFileContentLength, h.zstdFile, SizeOf(dir, h.zstdFile))
  ELSE IF h.hasGzip /\ AcceptIncludes(req, TokenGzip)
  THEN VariantResponse(h, "gzip", h.gzipFileContentLength, h.gzipFile, SizeOf(dir, h.gzipFile))
  ELSE PlainResponse(h, SizeOf(dir, h.name))

\* what a route answers to a request
Respond(h, req, dir) ==
  IF h.hasCompressedVariants
  THEN IF h.strategy = "ram" THEN RamHandler(h, req) ELSE DiskHandler(h, req, dir)
  ELSE IF h.strategy = "ram" THEN PlainResponse(h, h.bunFileBytes)
       ELSE PlainResponse(h, SizeOf(dir, h.name))

(***************************************************************************)
(* bunStatic: the directories, options and requests checked.               *)
(***************************************************************************)
\* the largest number of elements of an Accept-Encoding header
MaxAccept == 2

NameApp == <<"a", ".", "j", "s">>

NameIndex == <<"i", "n", "d", "e", "x", ".", "h", "t", "m", "l">>

\* the byte size of each file: every variant has a size of its own
StFileSize(name) ==
  IF EndsWith(name, <<".", "g", "z">>) THEN 12
  ELSE IF EndsWith(name, <<".", "z", "s", "t">>) THEN 11
  ELSE IF EndsWith(name, <<".", "b", "r">>) THEN 9
  ELSE 30 + Len(name)

\* a.js with any of its compressed siblings, with or without index.html
StDirectories ==
  {[name \in ({NameApp} \cup {NameApp \o <<".">> \o compressionExtensions[i] : i \in exts}
               \cup extra) |-> StFileSize(name)] :
     exts \in SUBSET (1..Len(compressionExtensions)), extra \in {{}, {NameIndex}}}

\* the caller's headers: none, a harmless one, and the three content headers
UserHeaderChoices ==
  {<< >>,
   "Cache-Control" :> "no-cache",
   ("Content-Type" :> "text/plain") @@ ("Content-Length" :> <<"7">>)
     @@ ("Content-Encoding" :> "identity")}

StOptionChoices ==
  [routePath : {<<"/">>, <<"/", "s">>}, strategy : {"ram", "disk"},
   spaMode : BOOLEAN, headers : UserHeaderChoices]

QZero == <<";", "q", "=", "0">>

\* the elements of an Accept-Encoding header: a coding, or a coding refused by q=0
AcceptElements ==
  {TokenBr, TokenZstd, TokenGzip, <<"i", "d", "e", "n", "t", "i", "t", "y">>,
   TokenBr \o QZero, TokenZstd \o QZero, TokenGzip \o QZero}

AcceptEncodings ==
  UNION {{Join(es, <<",", " ">>) : es \in [1..k -> AcceptElements]} : k \in 0..MaxAccept}

StRequests(routes) ==
  {[route |-> r, hasAcceptEncoding |-> FALSE, acceptEncoding |-> << >>] : r \in routes}
  \cup {[route |-> r, hasAcceptEncoding |-> TRUE, acceptEncoding |-> ae] :
          r \in routes, ae \in AcceptEncodings}

StInit ==
  /\ FixAtRest /\ CmpAtRest /\ DepAtRest /\ BndAtRest /\ WkAtRest /\ LdAtRest /\ MfAtRest
  /\ ServeAtRest
  /\ stPc = "init"
  /\ stDir \in StDirectories
  /\ stOptions \in StOptionChoices
  /\ stRoutes = << >>
  /\ stRequest = << >>
  /\ stResponse = << >>

\* the ram strategy pre-loads the bytes of the group's own name, which
\* rejects when a group with compressed variants has no such file
PreloadThrows(dir, options) ==
  /\ options.strategy = "ram"
  /\ \E g \in GroupNames(dir) : g \notin DOMAIN dir

\* bunStatic(routePath, dir, options): Object.fromEntries of [route, handler]
BunStatic ==
  /\ stPc = "init"
  /\ IF PreloadThrows(stDir, stOptions)
     THEN /\ stPc' = "threw"
          /\ UNCHANGED stRoutes
     ELSE /\ stRoutes' =
               [r \in {RouteOf(stOptions.routePath, stOptions.spaMode, g) :
                         g \in GroupNames(stDir)} |->
                  BuildHandler(stDir, stOptions,
                    CHOOSE g \in GroupNames(stDir) :
                      RouteOf(stOptions.routePath, stOptions.spaMode, g) = r)]
          /\ stPc' = "serving"
  /\ UNCHANGED <<stDir, stOptions, stRequest, stResponse>>
  /\ UNCHANGED notStVars

\* the server routes a request to the handler of its route
StServe(req) ==
  /\ stPc = "serving"
  /\ req.route \in DOMAIN stRoutes
  /\ stRequest' = req
  /\ stResponse' = Respond(stRoutes[req.route], req, stDir)
  /\ stPc' = "served"
  /\ UNCHANGED <<stDir, stOptions, stRoutes>>
  /\ UNCHANGED notStVars

\* the response has been sent: the server waits for the next request
StSent ==
  /\ stPc = "served"
  /\ stPc' = "serving"
  /\ stRequest' = << >> /\ stResponse' = << >>
  /\ UNCHANGED <<stDir, stOptions, stRoutes>>
  /\ UNCHANGED notStVars

StNext == BunStatic \/ (\E req \in StRequests(DOMAIN stRoutes) : StServe(req)) \/ StSent

SpecStatic == StInit /\ [][StNext]_vars

\* directories in which a compressed file has no uncompressed original
OrphanDirectories ==
  {[name \in names |-> StFileSize(name)] :
     names \in {{NameApp \o <<".", "g", "z">>},
                {NameApp \o <<".", "g", "z">>, NameApp \o <<".", "b", "r">>},
                {NameApp, NameIndex \o <<".", "g", "z">>},
                {NameApp, NameApp \o <<".", "g", "z">>}}}

\* bunStatic('/', dir, { strategy }) on such directories
StOrphanInit ==
  /\ FixAtRest /\ CmpAtRest /\ DepAtRest /\ BndAtRest /\ WkAtRest /\ LdAtRest /\ MfAtRest
  /\ ServeAtRest
  /\ stPc = "init"
  /\ stDir \in OrphanDirectories
  /\ stOptions \in [routePath : {<<"/">>}, strategy : {"ram", "disk"},
                     spaMode : {FALSE}, headers : {<< >>}]
  /\ stRoutes = << >>
  /\ stRequest = << >>
  /\ stResponse = << >>

SpecStaticOrphans == StOrphanInit /\ [][StNext]_vars

(***************************************************************************)
(* Claims about the static asset server.                                   *)
(***************************************************************************)
\* the codings a request accepts: the elements of its Accept-Encoding header
\* that carry no q=0
AcceptedCodings(req) ==
  IF req.hasAcceptEncoding
  THEN {Trim(part) : part \in Range(SplitComma(req.acceptEncoding))}
  ELSE {}

\* the file the claim expects: the first of brotli, zstd, gzip that exists in
\* the group and is accepted, else the original
ExpectedVariant(dir, group, req) ==
  IF VariantFile(dir, group, <<"b", "r">>) # << >> /\ TokenBr \in AcceptedCodings(req)
  THEN VariantFile(dir, group, <<"b", "r">>)
  ELSE IF VariantFile(dir, group, <<"z", "s", "t">>) # << >> /\ TokenZstd \in AcceptedCodings(req)
  THEN VariantFile(dir, group, <<"z", "s", "t">>)
  ELSE IF VariantFile(dir, group, <<"g", "z">>) # << >> /\ TokenGzip \in AcceptedCodings(req)
  THEN VariantFile(dir, group, <<"g", "z">>)
  ELSE group

ServedGroup == stRoutes[stRequest.route].name

\* C4 as stated: a group with compressed siblings answers with the first of
\* brotli, zstd, gzip that exists and that the request accepts, and with the
\* original when there is none or the header is absent.
C4_FirstAcceptedVariant ==
  (stPc = "served" /\ GroupFiles(stDir, ServedGroup) # {ServedGroup})
  => stResponse.body.file = ExpectedVariant(stDir, ServedGroup, stRequest)

\* C5 as stated: every response carries a Content-Length header equal to the
\* byte length of its body.
C5_ContentLengthIsBodyLength ==
  stPc = "served"
  => /\ "content-length" \in DOMAIN stResponse.headers
     /\ stResponse.headers["content-length"] = NumToString(stResponse.body.len)

\* the Content-Encoding a file is served with; "" for the original
EncodingOf(file) ==
  IF CompressionExtension(file) = <<"b", "r">> THEN "br"
  ELSE IF CompressionExtension(file) = <<"z", "s", "t">> THEN "zstd"
  ELSE IF CompressionExtension(file) = <<"g", "z">> THEN "gzip"
  ELSE ""

\* C6 as stated: Content-Type, Content-Length and Content-Encoding carry the
\* server's values for the variant served, whatever headers the caller gave.
C6_ServerContentHeaders ==
  stPc = "served"
  => LET h == stResponse.headers
         file == stResponse.body.file
     IN  /\ "content-type" \in DOMAIN h /\ h["content-type"] = ContentTypeOf(ServedGroup)
         /\ "content-length" \in DOMAIN h
         /\ h["content-length"] = NumToString(SizeOf(stDir, file))
         /\ IF EncodingOf(file) = "" THEN "content-encoding" \notin DOMAIN h
            ELSE "content-encoding" \in DOMAIN h /\ h["content-encoding"] = EncodingOf(file)

RootRoute(spaMode) == IF spaMode THEN <<"/", "*">> ELSE <<"/">>

\* the routes of the table that serve index.html
IndexRoutes == {r \in DOMAIN stRoutes : stRoutes[r].name = NameIndex}

C26_EveryGroupHasItsOriginal ==
  stPc \in {"serving", "served"} =>
    /\ \A name \in DOMAIN stDir :
         Cardinality({g \in GroupNames(stDir) : name \in GroupFiles(stDir, g)}) = 1
    /\ \A g \in GroupNames(stDir) :
         \A e \in 1..Len(compressionExtensions) :
           Cardinality({name \in GroupFiles(stDir, g) :
                          CompressionExtension(name) = compressionExtensions[e]}) <= 1
    /\ \A r \in DOMAIN stRoutes : stRoutes[r].name \in DOMAIN stDir

\* the other strategy's answer to the request just served
OtherStrategyResponse ==
  Respond([stRoutes[stRequest.route] EXCEPT
             !.strategy = IF @ = "ram" THEN "disk" ELSE "ram"],
          stRequest, stDir)

\* the value of a header of a response, "absent" when it is not set
HeaderOf(response, name) ==
  IF name \in DOMAIN response.headers THEN response.headers[name] ELSE "absent"

\* C28 as stated: with the files unchanged, the ram and the disk strategy
\* answer every request to every route with the same Content-Type,
\* Content-Length and Content-Encoding headers and the same body bytes.
C28_RamAndDiskAgree ==
  stPc = "served" =>
    /\ \A name \in {"content-type", "content-length", "content-encoding"} :
         HeaderOf(stResponse, name) = HeaderOf(OtherStrategyResponse, name)
    /\ stResponse.body = OtherStrategyResponse.body

(***************************************************************************)
(* resolveJsDependencies: the reference map built from the text of the     *)
(* emitted files and the depth-first closure from each entrypoint.         *)
(***************************************************************************)
\* path.join(a, b): joined with '/' and normalised
PathJoin(a, b) == CollapseSlashes(a \o <<"/">> \o b)

\* path.basename(p)
Basename(p) ==
  LET slashes == {i \in 1..Len(p) : p[i] = "/"}
  IN  IF slashes = {} THEN p
      ELSE SubSeq(p, (CHOOSE i \in slashes : \A j \in slashes : i >= j) + 1, Len(p))

KwImportOpen == <<"i", "m", "p", "o", "r", "t", "(">>

\* a plausible slip: the dynamic-import exclusion is left out
ReferencesFileOnly(content, searchPattern) == Includes(content, searchPattern)

\* referencesFile && !dynamicallyImportsFile
IsStaticReference(content, searchPattern) ==
  LET referencesFile == Includes(content, searchPattern)
      dynamicallyImportsFile ==
        \/ Includes(content, KwImportOpen \o <<"'">> \o searchPattern \o <<"'", ")">>)
        \/ Includes(content, KwImportOpen \o <<"\"">> \o searchPattern \o <<"\"", ")">>)
  IN  referencesFile /\ ~dynamicallyImportsFile

\* the references of one file, in the order of jsFilesByBasename
References(fileContentByBasename, order, publicAssetPath, basename) ==
  SelectSeq(order, LAMBDA otherBasename :
    /\ otherBasename # basename
    /\ IsStaticReference(fileContentByBasename[basename],
                         PathJoin(publicAssetPath, otherBasename)))

ReferenceMap(fileContentByBasename, order, publicAssetPath) ==
  [basename \in DOMAIN fileContentByBasename |->
     References(fileContentByBasename, order, publicAssetPath, basename)]

RECURSIVE collectDeps(_, _, _)

\* a plausible slip: the dependencies of a dependency are not followed
DescendNot(referenceMap, ref, allDeps) == allDeps

\* collectDeps(ref): recurse to find transitive dependencies
Descend(referenceMap, ref, allDeps) == collectDeps(referenceMap, ref, allDeps)

\* for (const ref of refs) if (!allDeps.has(ref)) { allDeps.add(ref); collectDeps(ref) }
RECURSIVE VisitRefs(_, _, _)
VisitRefs(referenceMap, refs, allDeps) ==
  IF refs = << >> THEN allDeps
  ELSE LET ref == Head(refs)
       IN  IF ref \in Range(allDeps) THEN VisitRefs(referenceMap, Tail(refs), allDeps)
           ELSE VisitRefs(referenceMap, Tail(refs),
                          Descend(referenceMap, ref, Append(allDeps, ref)))

\* allDeps is an insertion-ordered set: a sequence without repetition
collectDeps(referenceMap, basename, allDeps) ==
  IF basename \notin DOMAIN referenceMap THEN allDeps
  ELSE VisitRefs(referenceMap, referenceMap[basename], allDeps)

\* a plausible slip: the de-duplication by urlPath is left out
NeverListed(jsFiles, depUrlPath) == FALSE

\* jsFiles.some((f) => f.urlPath === depUrlPath)
AlreadyListed(jsFiles, depUrlPath) ==
  \E i \in 1..Len(jsFiles) : jsFiles[i].urlPath = depUrlPath

\* the loop that appends the dependencies to one page's list
RECURSIVE AppendDeps(_, _, _, _)
AppendDeps(jsFiles, allDeps, publicAssetPath, clientDistDir) ==
  IF allDeps = << >> THEN jsFiles
  ELSE LET depBasename == Head(allDeps)
           depUrlPath == publicAssetPath \o depBasename
           depFilePath == PathJoin(clientDistDir, depBasename)
       IN  AppendDeps(IF AlreadyListed(jsFiles, depUrlPath) THEN jsFiles
                      ELSE Append(jsFiles, [urlPath |-> depUrlPath, filePath |-> depFilePath,
                                            kind |-> "chunk"]),
                      Tail(allDeps), publicAssetPath, clientDistDir)

\* jsFiles.find((f) => f.kind === 'entrypoint'): its index, 0 when there is none
EntrypointIndex(jsFiles) ==
  LET hits == {i \in 1..Len(jsFiles) : jsFiles[i].kind = "entrypoint"}
  IN  IF hits = {} THEN 0 ELSE CHOOSE i \in hits : \A j \in hits : i <= j

\* one page of step 3
ResolvePage(jsFiles, referenceMap, publicAssetPath, clientDistDir) ==
  IF EntrypointIndex(jsFiles) = 0 THEN jsFiles
  ELSE AppendDeps(jsFiles,
                  collectDeps(referenceMap,
                              Basename(jsFiles[EntrypointIndex(jsFiles)].urlPath), << >>),
                  publicAssetPath, clientDistDir)

\* the whole function on the files of clientDistDir
resolveJsDependencies(fileContentByBasename, order, publicAssetPath, clientDistDir, byPage) ==
  LET referenceMap == ReferenceMap(fileContentByBasename, order, publicAssetPath)
  IN  [pagePath \in DOMAIN byPage |->
         ResolvePage(byPage[pagePath], referenceMap, publicAssetPath, clientDistDir)]

(***************************************************************************)
(* resolveJsDependencies: the emitted files and pages checked.             *)
(***************************************************************************)
\* the largest number of references (static or dynamic) between the files
MaxRefs == 3

\* how many calls of resolveJsDependencies a behaviour makes
MaxDepCalls == 2

FileA == <<"a", ".", "j", "s">>

FileB == <<"b", ".", "j", "s">>

FileC == <<"c", ".", "j", "s">>

\* the files of clientDistDir in the order the glob scan returns them
DepOrder == <<FileA, FileB, FileC>>

\* PUBLIC_ASSET_PATH: the HTTP path the assets are served from
PublicAssetPath == <<"/", "d", "/">>

ClientDistDir == <<"c">>

DepPairs == {pr \in Range(DepOrder) \X Range(DepOrder) : pr[1] # pr[2]}

RefKinds == {"none", "static", "dynSingle", "dynDouble", "both"}

StaticFragment(other) ==
  <<"f", "r", "o", "m", "\"">> \o PublicAssetPath \o other \o <<"\"", ";">>

DynSingleFragment(other) ==
  KwImportOpen \o <<"'">> \o PublicAssetPath \o other \o <<"'", ")", ";">>

DynDoubleFragment(other) ==
  KwImportOpen \o <<"\"">> \o PublicAssetPath \o other \o <<"\"", ")", ";">>

\* the text by which a file refers to another
Fragment(kind, other) ==
  CASE kind = "none" -> << >>
    [] kind = "static" -> StaticFragment(other)
    [] kind = "dynSingle" -> DynSingleFragment(other)
    [] kind = "dynDouble" -> DynDoubleFragment(other)
    [] kind = "both" -> StaticFragment(other) \o DynDoubleFragment(other)

\* the text of a file: its references, then code of its own
FileText(refs, basename) ==
  Concat([i \in 1..Len(DepOrder) |->
            IF DepOrder[i] = basename THEN << >>
            ELSE Fragment(refs[<<basename, DepOrder[i]>>], DepOrder[i])])
  \o <<"x", "(", ")", ";">>

RefMatrices ==
  {m \in [DepPairs -> RefKinds] : Cardinality({pr \in DepPairs : m[pr] # "none"}) <= MaxRefs}

\* the list bundleClient sets for a page: its entrypoint alone
EntryList(basename) ==
  <<[urlPath |-> PublicAssetPath \o basename,
     filePath |-> PathJoin(ClientDistDir, basename),
     kind |-> "entrypoint"]>>

PageChoices ==
  {"/" :> EntryList(FileA), ("/" :> EntryList(FileA)) @@ ("/p" :> EntryList(FileB))}

DepInit ==
  /\ FixAtRest /\ CmpAtRest /\ StAtRest /\ BndAtRest /\ WkAtRest /\ LdAtRest /\ MfAtRest
  /\ ServeAtRest
  /\ depRefs \in RefMatrices
  /\ depFiles = [basename \in Range(DepOrder) |-> FileText(depRefs, basename)]
  /\ jsByPagePath \in PageChoices
  /\ depCalls = 0
  /\ depBefore = << >>

\* one call of resolveJsDependencies on the map it is given
Resolve ==
  /\ depCalls < MaxDepCalls
  /\ depBefore' = jsByPagePath
  /\ jsByPagePath' =
       resolveJsDependencies(depFiles, DepOrder, PublicAssetPath, ClientDistDir, jsByPagePath)
  /\ depCalls' = depCalls + 1
  /\ UNCHANGED <<depRefs, depFiles>>
  /\ UNCHANGED notDepVars

DepNext == Resolve

SpecDeps == DepInit /\ [][DepNext]_vars

(***************************************************************************)
(* Claims about the dependency resolver.                                   *)
(***************************************************************************)
\* A references B statically: its text holds the path and no dynamic import of it
StaticEdge(a, b) == a # b /\ depRefs[<<a, b>>] = "static"

RECURSIVE ReachClosure(_)
ReachClosure(set) ==
  LET next == set \cup {b \in Range(DepOrder) : \E a \in set : StaticEdge(a, b)}
  IN  IF next = set THEN set ELSE ReachClosure(next)

\* the files reachable from a file along one or more static references
Reachable(a) == ReachClosure({b \in Range(DepOrder) : StaticEdge(a, b)})

\* the files a page's list names after its first entry
ListedChunks(list) == {Basename(list[i].urlPath) : i \in 2..Len(list)}

PageEntry(page) == Basename(jsByPagePath[page][1].urlPath)

\* C7: after resolveJsDependencies the list of every page is its entrypoint
\* followed by exactly the files statically reachable from it (other than the
\* entrypoint itself, which a cycle leads back to), each once and of kind
\* chunk, whatever the reference graph, cycles included.
C7_EntrypointThenReachable ==
  depCalls >= 1 =>
    \A page \in DOMAIN jsByPagePath :
      LET list == jsByPagePath[page]
          deps == Reachable(PageEntry(page)) \ {PageEntry(page)}
      IN  /\ list[1].kind = "entrypoint"
          /\ ListedChunks(list) = deps
          /\ Len(list) = 1 + Cardinality(deps)
          /\ \A i \in 2..Len(list) :
               /\ list[i].kind = "chunk"
               /\ list[i].urlPath = PublicAssetPath \o Basename(list[i].urlPath)

\* C7 witness: the entrypoint a.js lies on a cycle with b.js, which also
\* leads to c.js, and the list is a.js followed by the two chunks.
C7_Witness ==
  /\ depCalls >= 1
  /\ StaticEdge(FileA, FileB) /\ StaticEdge(FileB, FileA) /\ StaticEdge(FileB, FileC)
  /\ Len(jsByPagePath["/"]) = 3
  /\ ListedChunks(jsByPagePath["/"]) = {FileB, FileC}

\* the entrypoint's text holds a dynamic import of B
DynamicallyImports(a, b) == a # b /\ depRefs[<<a, b>>] \in {"dynSingle", "dynDouble", "both"}

\* C8 as stated: a chunk the entrypoint imports dynamically is excluded from
\* the list of the entrypoint's page.
C8_DynamicImportExcluded ==
  depCalls >= 1 =>
    \A page \in DOMAIN jsByPagePath : \A b \in Range(DepOrder) :
      DynamicallyImports(PageEntry(page), b) => b \notin ListedChunks(jsByPagePath[page])

\* C8 amended: a chunk the entrypoint imports dynamically is in the list of
\* the entrypoint's page exactly when it is statically reachable from the
\* entrypoint through other files; the dynamic import itself never adds it.
C8_DynamicImportAddsNothing ==
  depCalls >= 1 =>
    \A page \in DOMAIN jsByPagePath : \A b \in Range(DepOrder) :
      DynamicallyImports(PageEntry(page), b)
      => (b \in ListedChunks(jsByPagePath[page]) <=> b \in Reachable(PageEntry(page)))

\* C8 witness: a.js imports b.js dynamically (double-quoted) and c.js
\* statically; the list holds c.js and not b.js.
C8_Witness ==
  /\ depCalls >= 1
  /\ depRefs[<<FileA, FileB>>] = "dynDouble" /\ StaticEdge(FileA, FileC)
  /\ ListedChunks(jsByPagePath["/"]) = {FileC}

\* C9: a second call on the result of the first, with the files unchanged,
\* leaves every list as it was, and no list ever names a URL path twice.
C9_ResolveIdempotent ==
  /\ depCalls >= 2 => jsByPagePath = depBefore
  /\ \A page \in DOMAIN jsByPagePath :
       \A i, j \in 1..Len(jsByPagePath[page]) :
         jsByPagePath[page][i].urlPath = jsByPagePath[page][j].urlPath => i = j

\* C9 witness: the second call has returned for a page whose list holds chunks.
C9_Witness ==
  /\ depCalls = 2
  /\ Len(jsByPagePath["/"]) >= 3
  /\ jsByPagePath = depBefore

(***************************************************************************)
(* ssrBundle: the stages of one call and the awaits between them.          *)
(***************************************************************************)
\* the largest routes.length a call is given
MaxRoutes == 2

\* the largest number of files the bundler emits
MaxOutputs == 2

\* how many calls of ssrBundle a behaviour makes
MaxBundleRuns == 2

\* a plausible slip: the dependencies are resolved before the exports are fixed
StageAfterResolveFirst(stage, compress) ==
  CASE stage = "bundle" -> "resolve-dependencies"
    [] stage = "resolve-dependencies" -> "fix-exports"
    [] stage = "fix-exports" -> IF compress THEN "compress" ELSE "write-manifest"
    [] stage = "compress" -> "write-manifest"
    [] OTHER -> "none"

\* the awaited call that follows each awaited call of ssrBundle and bundleClient
StageAfter(stage, compress) ==
  CASE stage = "bundle" -> "fix-exports"
    [] stage = "fix-exports" -> "resolve-dependencies"
    [] stage = "resolve-dependencies" -> IF compress THEN "compress" ELSE "write-manifest"
    [] stage = "compress" -> "write-manifest"
    [] OTHER -> "none"

\* what the environment of a call decides: the bundler's success and
\* outputs, and whether a compression worker rejects
BundleEnvs ==
  [buildOk : BOOLEAN, outputs : 1..MaxOutputs, pagesFound : BOOLEAN,
   cssForAll : BOOLEAN, workersOk : BOOLEAN]

\* the work a stage has when it starts
WorkOf(stage, routes, env) ==
  CASE stage = "bundle" -> routes
    [] stage = "write-manifest" -> 1
    [] OTHER -> env.outputs

\* a plausible slip: a rejected compression is caught and the call goes on
StageFailsBuildOnly(stage, env) == stage = "bundle" /\ ~env.buildOk

\* the stage's promise rejects, or its result makes the caller throw
StageFails(stage, env) ==
  \/ stage = "bundle" /\ ~env.buildOk
  \/ stage = "compress" /\ ~env.workersOk

\* the synchronous code before a stage's call throws: no page for an
\* entry-point output, or a route without JS or CSS paths
ThrowsBefore(stage, env) ==
  \/ stage = "resolve-dependencies" /\ ~env.pagesFound
  \/ stage = "write-manifest" /\ ~env.cssForAll

\* a plausible slip: the check for an empty route list is left out
NothingToBundleNever(routes) == FALSE

\* if (routes.length === 0) return ''
NothingToBundle(routes) == routes = 0

BndInit ==
  /\ FixAtRest /\ CmpAtRest /\ StAtRest /\ DepAtRest /\ WkAtRest /\ LdAtRest /\ MfAtRest
  /\ ServeAtRest
  /\ bPc = "idle" /\ bRoutes = 0 /\ bCompress = FALSE /\ bEnv = << >>
  /\ bStage = "none" /\ bActive = FALSE /\ bWork = 0 /\ bLog = << >> /\ bRuns = 0
  /\ bReturn = "nothing"

\* ssrBundle({ routes, compress }) up to its first await
SsrBundleCall(routes, compress, env) ==
  /\ bPc \in {"idle", "returned", "threw"}
  /\ bRuns < MaxBundleRuns
  /\ bRuns' = bRuns + 1
  /\ bRoutes' = routes /\ bCompress' = compress /\ bEnv' = env
  /\ IF NothingToBundle(routes)
     THEN /\ bPc' = "returned" /\ bStage' = "none" /\ bActive' = FALSE
          /\ bWork' = 0 /\ bLog' = << >> /\ bReturn' = "''"
     ELSE /\ bPc' = "running" /\ bStage' = "bundle" /\ bActive' = TRUE
          /\ bWork' = WorkOf("bundle", routes, env)
          /\ bLog' = <<(<<"bundle", "begin">>)>>
          /\ bReturn' = "nothing"
  /\ UNCHANGED notBndVars

\* the pending stage does one item of its work
StageWork ==
  /\ bPc = "running" /\ bActive /\ bWork > 0
  /\ bWork' = bWork - 1
  /\ UNCHANGED <<bPc, bRoutes, bCompress, bEnv, bStage, bActive, bLog, bRuns, bReturn>>
  /\ UNCHANGED notBndVars

\* the pending stage's promise resolves once all its work is done
StageResolves ==
  /\ bPc = "running" /\ bActive /\ bWork = 0
  /\ ~StageFails(bStage, bEnv)
  /\ bActive' = FALSE
  /\ bLog' = Append(bLog, <<bStage, "end">>)
  /\ UNCHANGED <<bPc, bRoutes, bCompress, bEnv, bStage, bWork, bRuns, bReturn>>
  /\ UNCHANGED notBndVars

\* the pending stage fails: Bun.build reports no success once it is done,
\* a compression worker rejects while others may still be running
StageRejects ==
  /\ bPc = "running" /\ bActive
  /\ StageFails(bStage, bEnv)
  /\ bStage = "bundle" => bWork = 0
  /\ bPc' = "threw" /\ bActive' = FALSE
  /\ bLog' = Append(bLog, <<bStage, "failed">>)
  /\ UNCHANGED <<bRoutes, bCompress, bEnv, bStage, bWork, bRuns, bReturn>>
  /\ UNCHANGED notBndVars

\* the code after an await runs up to the next awaited call
StageBegins ==
  /\ bPc = "running" /\ ~bActive
  /\ StageAfter(bStage, bCompress) # "none"
  /\ LET next == StageAfter(bStage, bCompress)
     IN  IF ThrowsBefore(next, bEnv)
         THEN /\ bPc' = "threw"
              /\ UNCHANGED <<bStage, bActive, bWork, bLog>>
         ELSE /\ bStage' = next /\ bActive' = TRUE
              /\ bWork' = WorkOf(next, bRoutes, bEnv)
              /\ bLog' = Append(bLog, <<next, "begin">>)
              /\ UNCHANGED bPc
  /\ UNCHANGED <<bRoutes, bCompress, bEnv, bRuns, bReturn>>
  /\ UNCHANGED notBndVars

\* return bundleDistDir
SsrBundleReturns ==
  /\ bPc = "running" /\ ~bActive
  /\ StageAfter(bStage, bCompress) = "none"
  /\ bPc' = "returned" /\ bReturn' = "bundleDistDir"
  /\ UNCHANGED <<bRoutes, bCompress, bEnv, bStage, bActive, bWork, bLog, bRuns>>
  /\ UNCHANGED notBndVars

BndNext ==
  \/ \E routes \in 0..MaxRoutes, compress \in BOOLEAN, env \in BundleEnvs :
       SsrBundleCall(routes, compress, env)
  \/ StageWork
  \/ StageResolves
  \/ StageRejects
  \/ StageBegins
  \/ SsrBundleReturns

SpecBundle == BndInit /\ [][BndNext]_vars

(***************************************************************************)
(* Claims about the orchestrator.                                          *)
(***************************************************************************)
\* the stages the call has started, in the order it started them
BegunStages ==
  LET begins == SelectSeq(bLog, LAMBDA e : e[2] = "begin")
  IN  [i \in 1..Len(begins) |-> begins[i][1]]

IsPrefix(s, t) == Len(s) <= Len(t) /\ \A i \in 1..Len(s) : s[i] = t[i]

\* every stage but the first starts right after the end of the one before it
EachStartsAfterPreviousEnd ==
  \A i \in 2..Len(bLog) :
    bLog[i][2] = "begin" => bLog[i - 1][2] = "end" /\ bLog[i][1] # bLog[i - 1][1]

ClaimedOrder ==
  <<"bundle", "resolve-dependencies", "fix-exports", "compress", "write-manifest">>

CodeOrder(compress) ==
  <<"bundle", "fix-exports", "resolve-dependencies">>
  \o (IF compress THEN <<"compress">> ELSE << >>) \o <<"write-manifest">>

\* C3 as stated: the stages start in the order bundle, resolve-dependencies,
\* fix-exports, compress, write-manifest, each after the previous one ended.
C3_StagesInClaimedOrder ==
  /\ IsPrefix(BegunStages, ClaimedOrder)
  /\ EachStartsAfterPreviousEnd

\* C3 amended: in a call with at least one route the stages start in the
\* order bundle, fix-exports, resolve-dependencies, compress (only when the
\* compress option is on), write-manifest, each after the previous one has
\* ended; a call that returns with routes has run them all, and a call
\* without routes runs none.
C3_StagesInCodeOrder ==
  /\ IsPrefix(BegunStages, CodeOrder(bCompress))
  /\ EachStartsAfterPreviousEnd
  /\ bPc = "returned" /\ bRoutes > 0 =>
       /\ BegunStages = CodeOrder(bCompress)
       /\ bLog[Len(bLog)] = <<"write-manifest", "end">>
  /\ bRoutes = 0 => bLog = << >>

\* C3 witness: a call with compression on has returned after all five stages.
C3_Witness ==
  /\ bPc = "returned" /\ bRoutes > 0 /\ bCompress
  /\ Len(bLog) = 10
  /\ BegunStages[2] = "fix-exports" /\ BegunStages[3] = "resolve-dependencies"

\* a step of the call fails: the bundler, the matching of an entry-point
\* output to a route, a compression worker, or a route without JS or CSS
StepFailure(env, compress) ==
  \/ ~env.buildOk
  \/ ~env.pagesFound
  \/ compress /\ ~env.workersOk
  \/ ~env.cssForAll

\* C13: a call in which a build step fails ends by throwing and never starts
\* writing the manifest; a call that returns had no failing step; and no
\* stage is started twice in a call.
C13_FailureWritesNoManifest ==
  /\ bPc = "threw" => "write-manifest" \notin Range(BegunStages)
  /\ (bRoutes > 0 /\ StepFailure(bEnv, bCompress))
     => /\ "write-manifest" \notin Range(BegunStages)
        /\ bPc # "returned"
  /\ \A i, j \in 1..Len(BegunStages) : BegunStages[i] = BegunStages[j] => i = j

\* C13 witness: a call has thrown because a compression worker rejected,
\* after the three earlier stages had ended.
C13_Witness ==
  /\ bPc = "threw" /\ bStage = "compress"
  /\ bLog[Len(bLog)] = <<"compress", "failed">>
  /\ Len(bLog) = 8

\* C23: a call of ssrBundle with no routes returns the empty string, and
\* neither the bundler nor any later stage nor the manifest write begins.
C23_EmptyRoutesReturnsSentinel ==
  (bRuns >= 1 /\ bRoutes = 0)
  => /\ bPc = "returned" /\ bReturn = "''"
     /\ bLog = << >> /\ bStage = "none" /\ ~bActive /\ bWork = 0

\* C23 witness: the second call of a behaviour, made with no routes, has
\* returned the empty string.
C23_Witness == bRuns = 2 /\ bRoutes = 0 /\ bPc = "returned" /\ bReturn = "''"

(***************************************************************************)
(* compressWithWorker: one worker, one timer, one promise.  The worker's   *)
(* events reach the caller's thread through its event queue, and the timer *)
(* may fire before or after any of them is dispatched.                     *)
(***************************************************************************)
\* the largest number of events one worker emits
MaxWorkerEvents == 2

\* how many calls of compressWithWorker a behaviour makes
MaxWorkerCalls == 2

\* the byte lengths a worker's message may carry
WorkerData == {1, 2}

Pending == [state |-> "pending", value |-> 0]

\* a plausible slip: a later resolve or reject replaces the settled result
SettleAgain(promise, outcome) == outcome

\* resolve(...) and reject(...): only the first call settles the promise
Settle(promise, outcome) == IF promise.state = "pending" THEN outcome ELSE promise

\* clearTimeout(timeout): no effect on a timer that has fired
ClearTimeout(timer) == IF timer = "armed" THEN "cleared" ELSE timer

WkInit ==
  /\ FixAtRest /\ CmpAtRest /\ StAtRest /\ DepAtRest /\ BndAtRest /\ LdAtRest /\ MfAtRest
  /\ ServeAtRest
  /\ wkPc = "idle" /\ wkPromise = << >> /\ wkWorker = "none" /\ wkTimer = "none"
  /\ wkEvents = << >> /\ wkHistory = << >> /\ wkCalls = 0

\* compressWithWorker(workerPath, filePath): new Worker, setTimeout, postMessage
CompressWithWorker ==
  /\ wkPc = "idle" /\ wkCalls < MaxWorkerCalls
  /\ wkPc' = "called" /\ wkCalls' = wkCalls + 1
  /\ wkPromise' = Pending /\ wkWorker' = "running" /\ wkTimer' = "armed"
  /\ wkEvents' = << >> /\ wkHistory' = << >>
  /\ UNCHANGED notWkVars

\* the worker posts its result
WorkerPosts(len) ==
  /\ wkPc = "called" /\ wkWorker = "running" /\ Len(wkEvents) < MaxWorkerEvents
  /\ wkEvents' = Append(wkEvents, [type |-> "message", data |-> len])
  /\ UNCHANGED <<wkPc, wkPromise, wkWorker, wkTimer, wkHistory, wkCalls>>
  /\ UNCHANGED notWkVars

\* the worker raises an error
WorkerThrows ==
  /\ wkPc = "called" /\ wkWorker = "running" /\ Len(wkEvents) < MaxWorkerEvents
  /\ wkEvents' = Append(wkEvents, [type |-> "error", data |-> 0])
  /\ UNCHANGED <<wkPc, wkPromise, wkWorker, wkTimer, wkHistory, wkCalls>>
  /\ UNCHANGED notWkVars

\* worker.onmessage / worker.onerror run for the oldest undispatched event
OnWorkerEvent ==
  /\ wkPc \in {"called", "idle"} /\ wkEvents # << >>
  /\ LET event == Head(wkEvents)
     IN  /\ wkPromise' = Settle(wkPromise,
                                IF event.type = "message"
                                THEN [state |-> "resolved", value |-> event.data]
                                ELSE [state |-> "rejected", value |-> 0])
         /\ wkHistory' = Append(wkHistory, event)
  /\ wkTimer' = ClearTimeout(wkTimer)
  /\ wkWorker' = "terminated"
  /\ wkEvents' = Tail(wkEvents)
  /\ UNCHANGED <<wkPc, wkCalls>>
  /\ UNCHANGED notWkVars

\* the 30 second timer fires: worker.terminate(), reject(Worker timeout)
TimerFires ==
  /\ wkPc = "called" /\ wkTimer = "armed"
  /\ wkTimer' = "fired"
  /\ wkWorker' = "terminated"
  /\ wkPromise' = Settle(wkPromise, [state |-> "rejected", value |-> 0])
  /\ wkHistory' = Append(wkHistory, [type |-> "timeout", data |-> 0])
  /\ UNCHANGED <<wkPc, wkEvents, wkCalls>>
  /\ UNCHANGED notWkVars

\* the caller's await resumes with the settled promise
CallSettled ==
  /\ wkPc = "called" /\ wkPromise.state # "pending"
  /\ wkPc' = "idle"
  /\ UNCHANGED <<wkPromise, wkWorker, wkTimer, wkEvents, wkHistory, wkCalls>>
  /\ UNCHANGED notWkVars

WkNext ==
  \/ CompressWithWorker
  \/ \E len \in WorkerData : WorkerPosts(len)
  \/ WorkerThrows
  \/ OnWorkerEvent
  \/ TimerFires
  \/ CallSettled

SpecWorker == WkInit /\ [][WkNext]_vars

(***************************************************************************)
(* Claims about compressWithWorker.                                        *)
(***************************************************************************)
\* what the first handler to run makes of the call
OutcomeOfFirst(event) ==
  IF event.type = "message" THEN [state |-> "resolved", value |-> event.data]
  ELSE [state |-> "rejected", value |-> 0]

\* C16: the call's promise is pending until a handler runs and from then on
\* holds the outcome of the first handler that ran: resolved with the first
\* message if it was dispatched before the timer fired, rejected if an error
\* or the timer came first; handlers that run later (a message after the
\* timeout) change nothing.  Once a handler has run the worker is terminated
\* and the timer can no longer fire, and each call creates one worker.
C16_SettlesOnceWithFirstOutcome ==
  wkCalls >= 1 =>
    /\ wkHistory = << >> => wkPromise = Pending /\ wkWorker = "running" /\ wkTimer = "armed"
    /\ wkHistory # << >> =>
         /\ wkPromise = OutcomeOfFirst(wkHistory[1])
         /\ wkWorker = "terminated"
         /\ wkTimer # "armed"
    /\ Cardinality({i \in 1..Len(wkHistory) : wkHistory[i].type = "timeout"}) <= 1

\* C16 witness: the timer fired first and a message posted before it was
\* dispatched afterwards; the call stays rejected.
C16_Witness ==
  /\ Len(wkHistory) = 2
  /\ wkHistory[1].type = "timeout" /\ wkHistory[2].type = "message"
  /\ wkPromise.state = "rejected"

(***************************************************************************)
(* generateSsrBundleHandlers: the manifest is looked for, read, validated, *)
(* and only then are the route handlers and the static handlers built.     *)
(***************************************************************************)
SSR_MANIFEST_VERSION == 1

\* the largest number of routes of a manifest or of a caller
MaxLoadRoutes == 2

\* how many calls of generateSsrBundleHandlers a behaviour makes
MaxLoadCalls == 2

LoadPaths == <<"/", "/p", "/q">>

\* every list of at most n distinct paths
PathLists(n) ==
  {list \in UNION {[1..k -> Range(LoadPaths)] : k \in 0..n} :
     \A i, j \in 1..Len(list) : list[i] = list[j] => i = j}

\* the manifest files a bundle directory may hold; << >> when there is none
ManifestFiles ==
  {<< >>} \cup [version : {0, SSR_MANIFEST_VERSION, 2}, routes : PathLists(MaxLoadRoutes)]

\* the keys bunStatic(manifest.publicAssetPath, clientDistDir) returns
StaticAssetKeys == {"/d/a.js"}

\* a plausible slip: no early return for an empty route list
ReturnsEarlyNever(routes) == FALSE

\* if (routes.length === 0) return { routeHandlers: {} }
ReturnsEarly(routes) == Len(routes) = 0

\* a plausible slip: the version of the manifest is not checked
VersionIgnored(manifestJson) == TRUE

\* ssrBundleManifestSchema.parse: version: z.literal(SSR_MANIFEST_VERSION)
SchemaAccepts(manifestJson) == manifestJson.version = SSR_MANIFEST_VERSION

LdInit ==
  /\ FixAtRest /\ CmpAtRest /\ StAtRest /\ DepAtRest /\ BndAtRest /\ WkAtRest /\ MfAtRest
  /\ ServeAtRest
  /\ ldPc = "idle" /\ ldRoutes = << >> /\ ldFile \in ManifestFiles /\ ldIndex = 0
  /\ ldHandlers = {} /\ ldReturned = {} /\ ldCalls = 0

\* generateSsrBundleHandlers({ bundleDirPath, routes }) up to its first await
LoadCall(routes) ==
  /\ ldPc \in {"idle", "returned", "threw"} /\ ldCalls < MaxLoadCalls
  /\ ldCalls' = ldCalls + 1
  /\ ldRoutes' = routes /\ ldIndex' = 0 /\ ldHandlers' = {} /\ ldReturned' = {}
  /\ ldPc' = IF ReturnsEarly(routes) THEN "returned" ELSE "exists"
  /\ UNCHANGED ldFile
  /\ UNCHANGED notLdVars

\* await manifestFile.exists(), and the throw when it does not
LoadExists ==
  /\ ldPc = "exists"
  /\ ldPc' = IF ldFile = << >> THEN "threw" ELSE "parse"
  /\ UNCHANGED <<ldRoutes, ldFile, ldIndex, ldHandlers, ldReturned, ldCalls>>
  /\ UNCHANGED notLdVars

\* await manifestFile.json() and ssrBundleManifestSchema.parse
LoadParse ==
  /\ ldPc = "parse"
  /\ ldPc' = IF SchemaAccepts(ldFile) THEN "handlers" ELSE "threw"
  /\ UNCHANGED <<ldRoutes, ldFile, ldIndex, ldHandlers, ldReturned, ldCalls>>
  /\ UNCHANGED notLdVars

\* getRouteHandler(route) for the next route of the manifest
LoadRouteHandler ==
  /\ ldPc = "handlers" /\ ldIndex < Len(ldFile.routes)
  /\ LET route == ldFile.routes[ldIndex + 1]
     IN  IF route \in Range(ldRoutes)
         THEN /\ ldHandlers' = ldHandlers \cup {route}
              /\ ldIndex' = ldIndex + 1
              /\ UNCHANGED ldPc
         ELSE /\ ldPc' = "threw"
              /\ UNCHANGED <<ldHandlers, ldIndex>>
  /\ UNCHANGED <<ldRoutes, ldFile, ldReturned, ldCalls>>
  /\ UNCHANGED notLdVars

\* await bunStatic(manifest.publicAssetPath, clientDistDir)
LoadStatic ==
  /\ ldPc = "handlers" /\ ldIndex = Len(ldFile.routes)
  /\ ldHandlers' = ldHandlers \cup StaticAssetKeys
  /\ ldPc' = "static"
  /\ UNCHANGED <<ldRoutes, ldFile, ldIndex, ldReturned, ldCalls>>
  /\ UNCHANGED notLdVars

\* return { routeHandlers: { ...ssrRouteHandlers, ...staticAssetHandlers } }
LoadReturn ==
  /\ ldPc = "static"
  /\ ldReturned' = ldHandlers
  /\ ldPc' = "returned"
  /\ UNCHANGED <<ldRoutes, ldFile, ldIndex, ldHandlers, ldCalls>>
  /\ UNCHANGED notLdVars

LdNext ==
  \/ \E routes \in PathLists(MaxLoadRoutes) : LoadCall(routes)
  \/ LoadExists
  \/ LoadParse
  \/ LoadRouteHandler
  \/ LoadStatic
  \/ LoadReturn

SpecLoad == LdInit /\ [][LdNext]_vars

(***************************************************************************)
(* Claims about the manifest loader.                                       *)
(***************************************************************************)
LoadEnded == ldPc \in {"returned", "threw"} /\ ldCalls >= 1

\* C19 as stated: with no manifest file the call fails whatever route list
\* the caller gave, and no handlers are returned.
C19_FailsWithoutManifest ==
  (LoadEnded /\ ldFile = << >>) => ldPc = "threw" /\ ldReturned = {}

\* C19 amended: with no manifest file a call given at least one route fails
\* before building any handler and returns none; a call given no routes
\* returns an empty handler table without looking for the manifest.
C19_FailsWithoutManifestUnlessNoRoutes ==
  /\ (ldCalls >= 1 /\ ldFile = << >>) => ldHandlers = {} /\ ldReturned = {}
  /\ (ldCalls >= 1 /\ ldFile = << >> /\ Len(ldRoutes) > 0) => ldPc \in {"exists", "threw"}
  /\ (ldCalls >= 1 /\ Len(ldRoutes) = 0) => ldPc = "returned" /\ ldReturned = {}

\* C19 witness: a call given a route has failed for want of a manifest file.
C19_Witness == ldPc = "threw" /\ ldFile = << >> /\ Len(ldRoutes) > 0

\* C20: when the manifest that is loaded carries a version other than
\* SSR_MANIFEST_VERSION the call fails without building a route handler or
\* a static handler, and returns none.
C20_VersionMismatchFails ==
  (ldCalls >= 1 /\ Len(ldRoutes) > 0 /\ ldFile # << >>
     /\ ldFile.version # SSR_MANIFEST_VERSION)
  => /\ ldPc \in {"exists", "parse", "threw"}
     /\ ldHandlers = {} /\ ldReturned = {}

\* C20 witness: a call has failed on a manifest of version 2 whose routes
\* the caller all knows.
C20_Witness ==
  /\ ldPc = "threw" /\ ldFile # << >> /\ ldFile.version = 2
  /\ Len(ldFile.routes) > 0 /\ Range(ldFile.routes) \subseteq Range(ldRoutes)

(***************************************************************************)
(* ssrBundle on the data: the outputs of Bun.build are matched to the      *)
(* routes, the dependencies resolved, the files compressed and the         *)
(* manifest written.                                                       *)
(***************************************************************************)
\* the largest number of routes of one call of ssrBundle
MaxPages == 2

\* how many calls of ssrBundle a behaviour makes
MaxManifestRuns == 1

PagePaths == {"/", "/p"}

\* hydrateModulePath: two pages that are both named i, and one named k
ModuleUI == <<"u", "/", "i", ".", "t">>

ModuleVI == <<"v", "/", "i", ".", "t">>

ModuleUK == <<"u", "/", "k", ".", "t">>

ModulePaths == {ModuleUI, ModuleVI, ModuleUK}

\* the route lists: distinct paths, distinct hydration modules
RouteLists ==
  {list \in UNION {[1..n -> [path : PagePaths, hydrateModulePath : ModulePaths]] :
                     n \in 0..MaxPages} :
     \A i, j \in 1..Len(list) :
       (list[i].path = list[j].path \/ list[i].hydrateModulePath = list[j].hydrateModulePath)
       => i = j}

\* which entrypoints import a stylesheet, whether two stylesheets have the
\* same content, whether two entrypoints share a chunk, the compress option
BuildEnvs(n) ==
  {env \in [css : SUBSET (1..n), cssSame : BOOLEAN, shared : BOOLEAN, compress : BOOLEAN] :
     /\ env.cssSame => Cardinality(env.css) >= 2
     /\ env.shared => n >= 2}

\* path.parse(basename).name
ParsedName(basename) ==
  LET dot == LastIndexOf(basename, <<".">>)
  IN  IF dot <= 0 THEN basename ELSE Slice(basename, 0, dot)

\* String.prototype.replace(pattern, replacement) with a string pattern
ReplaceFirst(text, pattern, replacement) ==
  LET i == IndexOf(text, pattern)
  IN  IF i < 0 THEN text
      ELSE Slice(text, 0, i) \o replacement \o SliceFrom(text, i + Len(pattern))

\* Map.prototype.set
MapSet(map, key, value) == [k \in DOMAIN map \cup {key} |-> IF k = key THEN value ELSE map[k]]

\* the content hash Bun gives the entry of a module
EntryHash(module) == <<module[1], module[3]>>

ChunkHash == <<"k", "k">>

ChunkName == <<"c", "-">> \o ChunkHash \o <<".", "j", "s">>

\* naming: '[name]-[hash].[ext]' under outdir
OutputPath(name, hash, ext) ==
  PathJoin(ClientDistDir, name \o <<"-">> \o hash \o <<".">> \o ext)

EntryOutput(route) ==
  [path |-> OutputPath(ParsedName(Basename(route.hydrateModulePath)),
                       EntryHash(route.hydrateModulePath), <<"j", "s">>),
   kind |-> "entry-point",
   hash |-> EntryHash(route.hydrateModulePath)]

CssOutput(route, env) ==
  LET hash == IF env.cssSame THEN <<"s", "s">>
              ELSE <<"s">> \o EntryHash(route.hydrateModulePath)
  IN  [path |-> OutputPath(ParsedName(Basename(route.hydrateModulePath)), hash,
                           <<"c", "s", "s">>),
       kind |-> "asset",
       hash |-> hash]

\* result.outputs: the entries, the shared chunk, the stylesheets
BuildOutputs(routes, env) ==
  [i \in 1..Len(routes) |-> EntryOutput(routes[i])]
  \o (IF env.shared THEN <<[path |-> PathJoin(ClientDistDir, ChunkName), kind |-> "chunk",
                            hash |-> ChunkHash]>>
      ELSE << >>)
  \o [k \in 1..Cardinality(env.css) |->
        CssOutput(routes[CHOOSE i \in env.css :
                           Cardinality({j \in env.css : j < i}) = k - 1], env)]

\* the text of an emitted file
OutputText(output, env) ==
  IF output.kind = "entry-point"
  THEN (IF env.shared THEN StaticFragment(ChunkName) ELSE << >>) \o <<"x", "(", ")", ";">>
  ELSE IF output.kind = "chunk" THEN <<"y", "(", ")", ";">>
  ELSE << >>

\* what Bun.build leaves in outdir, which it does not empty first
FilesAfterBuild(dir, outputs, env) ==
  LET written == {Basename(outputs[i].path) : i \in 1..Len(outputs)}
  IN  [name \in DOMAIN dir \cup written |->
         IF name \in written
         THEN OutputText(outputs[CHOOSE i \in 1..Len(outputs) :
                                   Basename(outputs[i].path) = name], env)
         ELSE dir[name]]

\* routes.find((page) => path.parse(path.basename(page.hydrateModulePath)).name
\*   === basenameWithoutHash): its index, 0 when there is none
PageForBasename(routes, basenameWithoutHash) ==
  LET hits == {i \in 1..Len(routes) :
                 ParsedName(Basename(routes[i].hydrateModulePath)) = basenameWithoutHash}
  IN  IF hits = {} THEN 0 ELSE CHOOSE i \in hits : \A j \in hits : i <= j

\* a plausible slip: the URL is made of the directory the file is in
RelativePathInDistDir(publicAssetPath, basename) == PathJoin(ClientDistDir, basename)

\* let relativePath = PUBLIC_ASSET_PATH + basename
RelativePath(publicAssetPath, basename) == publicAssetPath \o basename

\* one turn of the loop over result.outputs
ProcessOutput(acc, output, routes) ==
  LET basename == Basename(output.path)
      expectedName == ParsedName(basename)
      basenameWithoutHash == ReplaceFirst(expectedName, <<"-">> \o output.hash, << >>)
      page == PageForBasename(routes, basenameWithoutHash)
      isEntry == output.kind = "entry-point"
      isCss == EndsWith(output.path, <<".", "c", "s", "s">>)
      newFilename == output.hash \o <<".", "c", "s", "s">>
  IN  IF acc.threw THEN acc
      ELSE IF isEntry /\ page = 0 THEN [acc EXCEPT !.threw = TRUE]
      ELSE [threw |-> FALSE,
            js |-> IF isEntry
                   THEN MapSet(acc.js, routes[page].path,
                               <<[urlPath |-> RelativePath(PublicAssetPath, basename),
                                  filePath |-> output.path,
                                  kind |-> "entrypoint"]>>)
                   ELSE acc.js,
            css |-> IF isCss /\ page # 0
                    THEN MapSet(acc.css, routes[page].path,
                                Append(IF routes[page].path \in DOMAIN acc.css
                                       THEN acc.css[routes[page].path] ELSE << >>,
                                       [urlPath |-> RelativePath(PublicAssetPath, newFilename),
                                        filePath |-> output.path]))
                    ELSE acc.css,
            copies |-> IF isCss THEN acc.copies \cup {newFilename} ELSE acc.copies]

\* for (const output of result.outputs) { ... }
RECURSIVE ProcessOutputs(_, _, _)
ProcessOutputs(acc, outputs, routes) ==
  IF outputs = << >> THEN acc
  ELSE ProcessOutputs(ProcessOutput(acc, Head(outputs), routes), Tail(outputs), routes)

\* the single-CSS fallback for the pages without a stylesheet
CssFallback(routes, outputs, css) ==
  LET availableCssFiles ==
        SelectSeq(outputs, LAMBDA it : EndsWith(it.path, <<".", "c", "s", "s">>))
      cssFile == availableCssFiles[1]
      lacking == {routes[i].path : i \in 1..Len(routes)}
                 \ {pagePath \in DOMAIN css : Len(css[pagePath]) > 0}
  IN  IF Len(availableCssFiles) # 1 THEN css
      ELSE [pagePath \in DOMAIN css \cup lacking |->
              IF pagePath \in lacking
              THEN <<[urlPath |-> PublicAssetPath \o cssFile.hash \o <<".", "c", "s", "s">>,
                      filePath |-> cssFile.path]>>
              ELSE css[pagePath]]

\* the order in which the glob scan of clientDistDir yields the scripts
RECURSIVE ScanOrder(_)
ScanOrder(names) ==
  IF names = {} THEN << >>
  ELSE LET name == CHOOSE n \in names : TRUE
       IN  <<name>> \o ScanOrder(names \ {name})

ScriptsOf(dir) == {name \in DOMAIN dir : EndsWith(name, <<".", "j", "s">>)}

\* compressFilesInDir(clientDistDir) when every file shrinks: a sibling per
\* algorithm beside each file of the allow-list
FilesAfterCompress(dir) ==
  LET siblings == {name \o <<".">> \o compressionExtensions[e] :
                     name \in {n \in DOMAIN dir : MatchesAllowList(n)},
                     e \in 1..Len(compressionExtensions)}
  IN  [name \in DOMAIN dir \cup siblings |-> IF name \in DOMAIN dir THEN dir[name] ELSE << >>]

\* the page whose js or css list is missing makes the manifest throw
ManifestThrows(routes, js, css) ==
  \E i \in 1..Len(routes) : routes[i].path \notin DOMAIN js \/ routes[i].path \notin DOMAIN css

ManifestOf(routes, js, css) ==
  [version |-> SSR_MANIFEST_VERSION,
   publicAssetPath |-> PublicAssetPath,
   routes |-> [i \in 1..Len(routes) |->
                 [path |-> routes[i].path,
                  js |-> [k \in 1..Len(js[routes[i].path]) |-> js[routes[i].path][k].urlPath],
                  css |-> [k \in 1..Len(css[routes[i].path]) |->
                             css[routes[i].path][k].urlPath]]]]

MfInit ==
  /\ FixAtRest /\ CmpAtRest /\ StAtRest /\ DepAtRest /\ BndAtRest /\ WkAtRest /\ LdAtRest
  /\ ServeAtRest
  /\ mfPc = "idle" /\ mfRoutes = << >> /\ mfEnv = << >> /\ mfOutputs = << >>
  /\ mfDir = << >> /\ mfJs = << >> /\ mfCss = << >> /\ mfManifest = << >> /\ mfRuns = 0

\* ssrBundle({ routes, compress }) up to the await of Bun.build
MfCall(routes, env) ==
  /\ mfPc \in {"idle", "returned", "threw"} /\ mfRuns < MaxManifestRuns
  /\ mfRuns' = mfRuns + 1
  /\ mfRoutes' = routes /\ mfEnv' = env
  /\ mfOutputs' = << >> /\ mfJs' = << >> /\ mfCss' = << >>
  /\ mfPc' = IF Len(routes) = 0 THEN "returned" ELSE "build"
  /\ UNCHANGED <<mfDir, mfManifest>>
  /\ UNCHANGED notMfVars

\* await Bun.build(...) when it succeeds
MfBuild ==
  /\ mfPc = "build"
  /\ mfOutputs' = BuildOutputs(mfRoutes, mfEnv)
  /\ mfDir' = FilesAfterBuild(mfDir, BuildOutputs(mfRoutes, mfEnv), mfEnv)
  /\ mfPc' = "process"
  /\ UNCHANGED <<mfRoutes, mfEnv, mfJs, mfCss, mfManifest, mfRuns>>
  /\ UNCHANGED notMfVars

\* the maps are cleared and the outputs processed
MfProcess ==
  /\ mfPc = "process"
  /\ LET acc == ProcessOutputs([threw |-> FALSE, js |-> << >>, css |-> << >>, copies |-> {}],
                               mfOutputs, mfRoutes)
     IN  /\ mfJs' = acc.js /\ mfCss' = acc.css
         /\ mfDir' = [name \in DOMAIN mfDir \cup acc.copies |->
                        IF name \in acc.copies THEN << >> ELSE mfDir[name]]
         /\ mfPc' = IF acc.threw THEN "threw" ELSE "resolve"
  /\ UNCHANGED <<mfRoutes, mfEnv, mfOutputs, mfManifest, mfRuns>>
  /\ UNCHANGED notMfVars

\* await resolveJsDependencies(...), then the single-CSS fallback
MfResolve ==
  /\ mfPc = "resolve"
  /\ mfJs' = resolveJsDependencies([name \in ScriptsOf(mfDir) |-> mfDir[name]],
                                   ScanOrder(ScriptsOf(mfDir)), PublicAssetPath,
                                   ClientDistDir, mfJs)
  /\ mfCss' = CssFallback(mfRoutes, mfOutputs, mfCss)
  /\ mfPc' = IF mfEnv.compress THEN "compress" ELSE "manifest"
  /\ UNCHANGED <<mfRoutes, mfEnv, mfOutputs, mfDir, mfManifest, mfRuns>>
  /\ UNCHANGED notMfVars

\* if (compress) await compressFilesInDir(clientDistDir)
MfCompress ==
  /\ mfPc = "compress"
  /\ mfDir' = FilesAfterCompress(mfDir)
  /\ mfPc' = "manifest"
  /\ UNCHANGED <<mfRoutes, mfEnv, mfOutputs, mfJs, mfCss, mfManifest, mfRuns>>
  /\ UNCHANGED notMfVars

\* the manifest is assembled and written, or the assembly throws
MfManifest ==
  /\ mfPc = "manifest"
  /\ IF ManifestThrows(mfRoutes, mfJs, mfCss)
     THEN mfPc' = "threw" /\ UNCHANGED mfManifest
     ELSE mfPc' = "returned" /\ mfManifest' = ManifestOf(mfRoutes, mfJs, mfCss)
  /\ UNCHANGED <<mfRoutes, mfEnv, mfOutputs, mfDir, mfJs, mfCss, mfRuns>>
  /\ UNCHANGED notMfVars

MfNext ==
  \/ \E routes \in RouteLists : \E env \in BuildEnvs(Len(routes)) : MfCall(routes, env)
  \/ MfBuild
  \/ MfProcess
  \/ MfResolve
  \/ MfCompress
  \/ MfManifest

SpecManifest == MfInit /\ [][MfNext]_vars

(***************************************************************************)
(* Claims about the manifest ssrBundle writes.                             *)
(***************************************************************************)
MfEnded == mfPc \in {"returned", "threw"} /\ mfRuns >= 1 /\ Len(mfRoutes) > 0

\* C12 as stated: for every non-empty list of routes with distinct paths
\* whose hydration modules exist, ssrBundle writes a manifest with one
\* entry per route, in the routes' order, each with at least one js URL and
\* at least one css URL.
C12_ManifestEntryPerRoute ==
  MfEnded =>
    /\ mfPc = "returned" /\ mfManifest # << >>
    /\ Len(mfManifest.routes) = Len(mfRoutes)
    /\ \A i \in 1..Len(mfRoutes) :
         /\ mfManifest.routes[i].path = mfRoutes[i].path
         /\ Len(mfManifest.routes[i].js) > 0
         /\ Len(mfManifest.routes[i].css) > 0

\* the keys of the table bunStatic(routePath, dir) returns
StaticRouteKeys(routePath, dir) == {RouteOf(routePath, FALSE, group) : group \in GroupNames(dir)}

\* C18: after ssrBundle has written the manifest, every URL of every
\* route's js and css lists is a key of the table that
\* bunStatic(manifest.publicAssetPath, clientDistDir) builds.
C18_ManifestUrlsAreServed ==
  (mfPc = "returned" /\ Len(mfRoutes) > 0) =>
    \A i \in 1..Len(mfManifest.routes) :
      \A url \in Range(mfManifest.routes[i].js) \cup Range(mfManifest.routes[i].css) :
        url \in StaticRouteKeys(mfManifest.publicAssetPath, mfDir)

\* C18 witness: a manifest was written for two pages that share a chunk,
\* after the files were compressed.
C18_Witness ==
  /\ mfPc = "returned" /\ Len(mfRoutes) = 2 /\ mfEnv.compress /\ mfEnv.shared
  /\ \A i \in 1..2 : Len(mfManifest.routes[i].js) = 2 /\ Len(mfManifest.routes[i].css) = 1

(***************************************************************************)
(* tryCompress: the response is piped through the first compression whose  *)
(* name the Accept-Encoding header contains.                               *)
(***************************************************************************)
\* the largest number of elements of the Accept-Encoding header given to
\* tryCompress or to an SSR handler
MaxEncodings == 2

\* how many calls of tryCompress a behaviour makes
MaxTryCalls == 1

TokenDeflate == <<"d", "e", "f", "l", "a", "t", "e">>

TokenDeflateRaw == <<"d", "e", "f", "l", "a", "t", "e", "-", "r", "a", "w">>

\* the formats in the order tryCompress tries them
CompressionFormats ==
  <<[name |-> "zstd", token |-> TokenZstd], [name |-> "gzip", token |-> TokenGzip],
    [name |-> "deflate", token |-> TokenDeflate],
    [name |-> "deflate-raw", token |-> TokenDeflateRaw]>>

\* res.body.pipeThrough(new CompressionStream(format)), new Headers(res.headers),
\* headers.set('Content-Encoding', format), new Response(stream, { headers })
PipedThrough(res, format) ==
  [status |-> 200,
   headers |-> SetHeader(NewHeaders(res.headers), "Content-Encoding", format),
   body |-> format]

\* the chain of tests on req.headers.get('accept-encoding')?.includes(...)
RECURSIVE TryFormats(_, _, _)
TryFormats(req, res, formats) ==
  IF formats = << >> THEN res
  ELSE IF AcceptIncludes(req, Head(formats).token) THEN PipedThrough(res, Head(formats).name)
  ELSE TryFormats(req, res, Tail(formats))

tryCompress(req, res) ==
  IF res.body # "none" THEN TryFormats(req, res, CompressionFormats) ELSE res

\* the elements of the Accept-Encoding headers checked
EncodingElements ==
  {TokenZstd, TokenGzip, TokenDeflate, TokenDeflateRaw, TokenBr, TokenGzip \o QZero}

EncodingHeaders ==
  UNION {{Join(es, <<",", " ">>) : es \in [1..k -> EncodingElements]} : k \in 0..MaxEncodings}

EncodingRequests ==
  {[hasAcceptEncoding |-> FALSE, acceptEncoding |-> << >>]}
  \cup {[hasAcceptEncoding |-> TRUE, acceptEncoding |-> ae] : ae \in EncodingHeaders}

\* the responses given to tryCompress: without a body, and with one
PlainResponses ==
  {[status |-> 204, headers |-> << >>, body |-> "none"],
   [status |-> 200, headers |-> << >>, body |-> "plain"],
   [status |-> 200, headers |-> "content-type" :> "text/html; charset=utf-8",
    body |-> "plain"]}

TcInit ==
  /\ FixAtRest /\ CmpAtRest /\ StAtRest /\ DepAtRest /\ BndAtRest /\ WkAtRest /\ LdAtRest
  /\ MfAtRest /\ HAtRest
  /\ tcPc = "idle" /\ tcRequest = << >> /\ tcResponse = << >> /\ tcResult = << >>
  /\ tcCalls = 0

\* tryCompress(req, res) is called
TcCall(req, res) ==
  /\ tcPc \in {"idle", "returned"} /\ tcCalls < MaxTryCalls
  /\ tcCalls' = tcCalls + 1
  /\ tcRequest' = req /\ tcResponse' = res /\ tcResult' = << >>
  /\ tcPc' = "called"
  /\ UNCHANGED notTcVars

\* it returns
TcReturn ==
  /\ tcPc = "called"
  /\ tcResult' = tryCompress(tcRequest, tcResponse)
  /\ tcPc' = "returned"
  /\ UNCHANGED <<tcRequest, tcResponse, tcCalls>>
  /\ UNCHANGED notTcVars

TcNext ==
  \/ \E req \in EncodingRequests, res \in PlainResponses : TcCall(req, res)
  \/ TcReturn

SpecTryCompress == TcInit /\ [][TcNext]_vars

(***************************************************************************)
(* Claims about tryCompress.                                               *)
(***************************************************************************)
\* the coding an element of the header names: what precedes its parameters
CodingOf(element) ==
  Trim(IF IndexOf(element, <<";">>) < 0 THEN element
       ELSE Slice(element, 0, IndexOf(element, <<";">>)))

\* the codings the header lists as tokens
ListedCodings(req) ==
  IF req.hasAcceptEncoding
  THEN {CodingOf(element) : element \in Range(SplitComma(req.acceptEncoding))}
  ELSE {}

\* the first of zstd, gzip, deflate, deflate-raw that the header lists, 0 if none
FirstListed(req) ==
  LET hits == {i \in 1..Len(CompressionFormats) :
                 CompressionFormats[i].token \in ListedCodings(req)}
  IN  IF hits = {} THEN 0 ELSE CHOOSE i \in hits : \A j \in hits : i <= j

\* C30 as stated: for a response with a body, Content-Encoding is set to
\* the first of zstd, gzip, deflate, deflate-raw that the Accept-Encoding
\* header lists as a token, never to one it does not list; with none of
\* them listed, or without a body, the response is returned unchanged.
C30_FirstListedEncoding ==
  tcPc = "returned" =>
    IF tcResponse.body = "none" \/ FirstListed(tcRequest) = 0
    THEN tcResult = tcResponse
    ELSE /\ "content-encoding" \in DOMAIN tcResult.headers
         /\ tcResult.headers["content-encoding"] =
              CompressionFormats[FirstListed(tcRequest)].name

(***************************************************************************)
(* The handler getRouteHandler returns: the page is rendered and the       *)
(* response compressed inside a try block whose catch answers with 500.    *)
(***************************************************************************)
\* how many requests a behaviour serves
MaxHandlerCalls == 1

\* the handlers are built with IS_PRODUCTION and compressSsrResponse fixed
HandlerOptions == [production : BOOLEAN, compressSsrResponse : BOOLEAN]

\* what a request meets: rendering resolves, rejects with an Error (a
\* message and a stack) or with another value, and whether constructing the
\* compression stream throws
RenderOutcomes ==
  [render : {"ok", "throwsError", "throwsValue"}, compressionThrows : BOOLEAN]

\* const compressFn = compressSsrResponse ? tryCompress : (req, res) => res
CompressFn(options, req, res) ==
  IF options.compressSsrResponse THEN tryCompress(req, res) ELSE res

\* whether the try block throws: rendering rejects, or tryCompress throws
\* while it constructs a stream
TryThrows(options, req, outcome, res) ==
  \/ outcome.render # "ok"
  \/ outcome.compressionThrows /\ CompressFn(options, req, res) # res

\* a plausible slip: the error detail is shown in production too
ShowsErrorDetailAlways(isProduction) == TRUE

\* if (!IS_PRODUCTION) { ...error.message, error.stack... }
ShowsErrorDetail(isProduction) == ~isProduction

\* the catch block's response
ErrorResponse(options, outcome) ==
  [status |-> 500,
   headers |-> "content-type" :> "text/html; charset=utf-8",
   body |-> IF ShowsErrorDetail(options.production)
            THEN [kind |-> "error page", message |-> TRUE,
                  stack |-> outcome.render # "throwsValue"]
            ELSE [kind |-> "generic page", message |-> FALSE, stack |-> FALSE]]

\* the response the handler resolves with
HandlerResponse(options, req, outcome) ==
  LET response == [status |-> 200,
                   headers |-> "content-type" :> "text/html; charset=utf-8",
                   body |-> "plain"]
  IN  IF TryThrows(options, req, outcome, response)
      THEN ErrorResponse(options, outcome)
      ELSE CompressFn(options, req, response)

HInit ==
  /\ FixAtRest /\ CmpAtRest /\ StAtRest /\ DepAtRest /\ BndAtRest /\ WkAtRest /\ LdAtRest
  /\ MfAtRest /\ TcAtRest
  /\ hPc = "idle" /\ hOptions \in HandlerOptions /\ hRequest = << >> /\ hRender = << >>
  /\ hResponse = << >> /\ hCalls = 0

\* the server calls the handler: it runs up to await renderToReadableStream
HandlerCall(req, outcome) ==
  /\ hPc \in {"idle", "returned"} /\ hCalls < MaxHandlerCalls
  /\ hCalls' = hCalls + 1
  /\ hRequest' = req /\ hRender' = outcome /\ hResponse' = << >>
  /\ hPc' = "rendering"
  /\ UNCHANGED hOptions
  /\ UNCHANGED notHVars

\* rendering settles; the rest of the try block, or the catch block, runs
HandlerSettles ==
  /\ hPc = "rendering"
  /\ hResponse' = HandlerResponse(hOptions, hRequest, hRender)
  /\ hPc' = "returned"
  /\ UNCHANGED <<hOptions, hRequest, hRender, hCalls>>
  /\ UNCHANGED notHVars

HNext ==
  \/ \E req \in EncodingRequests, outcome \in RenderOutcomes : HandlerCall(req, outcome)
  \/ HandlerSettles

SpecHandler == HInit /\ [][HNext]_vars

(***************************************************************************)
(* Claims about the SSR route handler.                                     *)
(***************************************************************************)
\* rendering failed, or compression was asked for, applied and failed
ServingFailed ==
  \/ hRender.render # "ok"
  \/ /\ hRender.compressionThrows /\ hOptions.compressSsrResponse
     /\ \E i \in 1..Len(CompressionFormats) :
          AcceptIncludes(hRequest, CompressionFormats[i].token)

\* C21: the handler of a route never rejects.  When rendering or response
\* compression fails it resolves with a 500 response, whose body carries
\* the error's message (and its stack, if it has one) when the handlers
\* were built outside production, and only the generic page in production.
C21_FailureBecomes500 ==
  /\ hPc # "rejected"
  /\ (hPc = "returned" /\ ServingFailed) =>
       /\ hResponse.status = 500
       /\ hResponse.body.message = ~hOptions.production
       /\ hResponse.body.stack = (~hOptions.production /\ hRender.render # "throwsValue")
       /\ hResponse.body.kind = IF hOptions.production THEN "generic page" ELSE "error page"
  /\ (hPc = "returned" /\ ~ServingFailed) => hResponse.status = 200

\* C21 witness: in production, a request whose rendering threw an Error
\* was answered with the generic 500 page.
C21_Witness ==
  /\ hPc = "returned" /\ hOptions.production /\ hRender.render = "throwsError"
  /\ hResponse.status = 500 /\ hResponse.body.kind = "generic page"

====
